---- MODULE Spec2Model ----
(***************************************************************************)
(* Weekly driver-scheduling upload: the spreadsheet-to-schedule derivation *)
(* (services/excel_parser.py) and the upload handler that persists its     *)
(* result (api/routes/upload.py, services/database_service.py).            *)
(*                                                                         *)
(* Strings are sequences of one-character strings, so that strip, lower,   *)
(* upper, endswith and substring tests are computed as the code computes   *)
(* them.  Dates are day numbers counted from 2022-12-31 (day 1 is          *)
(* 2023-01-01, a Sunday); the model covers 2023-01-01 .. 2024-02-28.       *)
(***************************************************************************)
EXTENDS Integers, Sequences, FiniteSets, TLC

VARIABLES
    pc,               \* position of the upload handler
    week_start,       \* week_start_date of the request
    action,           \* the request's action parameter
    workbook,         \* the uploaded workbook (ExcelParser.workbook)
    unavailable_list, \* the request's manually supplied unavailable drivers
    data,             \* ExcelParser.data
    seasonal_routes,  \* ExcelParser.seasonal_routes
    response,         \* season / school_status reported by the handler
    driver_id_map,    \* upload handler: driver name -> driver_id
    route_id_map,     \* upload handler: (route_name, date) -> route_id
    unavailable_set,  \* upload handler: (driver_id, date) pairs marked unavailable
    db,               \* the persisted tables and their id sequences
    cell_value,       \* a cell value handed to a coercion
    coerced,          \* the coercion applied to it and what it gave back
    upload_dir,       \* the files in settings.UPLOAD_DIR
    file_size,        \* len(content) of the uploaded file
    _NOTIFICATIONS,   \* notifications.py: the stored notifications
    DEDUP_KEYS,       \* notifications.py: the keys of the stored notifications
    uuid,             \* the number of notification ids issued so far
    reply,            \* the last notification call and what it returned
    AVAILABILITY_CACHE, \* database_service.py: week -> (time, result)
    now,              \* time.time(), in seconds
    read,             \* the last get_availability_for_week call and its result
    handlers          \* the upload requests in progress on the shared tables

vars == <<pc, week_start, action, workbook, unavailable_list, data, seasonal_routes,
          response, driver_id_map, route_id_map, unavailable_set, db, cell_value, coerced,
          upload_dir, file_size, _NOTIFICATIONS, DEDUP_KEYS, uuid, reply,
          AVAILABILITY_CACHE, now, read, handlers>>

notification_vars == <<_NOTIFICATIONS, DEDUP_KEYS, uuid, reply>>

cache_vars == <<AVAILABILITY_CACHE, now, read>>

\* the state the upload handler and the parser leave alone
other_services == <<notification_vars, cache_vars, handlers>>

handler_vars ==
    <<pc, week_start, action, workbook, unavailable_list, data, seasonal_routes,
      response, driver_id_map, route_id_map, unavailable_set, db, cell_value, coerced,
      upload_dir, file_size, handlers>>

-----------------------------------------------------------------------------
(* Bounds *)

\* largest number of rows of the driver sheet
MaxDrivers == 2

\* a note that has reached this many pieces is not extended further
MaxNoteLen == 3

-----------------------------------------------------------------------------
(* Strings *)

\* Python None where an Optional[str] is expected
None == <<"<None>">>

sFrei == <<"f", "r", "e", "i">>
sSA == <<"S", "A">>
sDI == <<"D", "I">>
sMB == <<"M", "B">>
sSOF == <<"S", "O", "F">>
sZero == <<"0", "0", ":", "0", "0">>
sNoneText == <<"N", "o", "n", "e">>

UpperChar(c) ==
    CASE c = "a" -> "A" [] c = "e" -> "E" [] c = "f" -> "F" [] c = "i" -> "I"
      [] c = "m" -> "M" [] c = "o" -> "O" [] c = "r" -> "R" [] c = "s" -> "S"
      [] c = "c" -> "C" [] c = "h" -> "H" [] c = "l" -> "L" [] c = "u" -> "U"
      [] c = "n" -> "N" [] c = "v" -> "V"
      [] OTHER -> c

LowerChar(c) ==
    CASE c = "A" -> "a" [] c = "E" -> "e" [] c = "F" -> "f" [] c = "I" -> "i"
      [] c = "M" -> "m" [] c = "O" -> "o" [] c = "R" -> "r" [] c = "S" -> "s"
      [] c = "C" -> "c" [] c = "H" -> "h" [] c = "L" -> "l" [] c = "U" -> "u"
      [] c = "N" -> "n" [] c = "V" -> "v" [] c = "D" -> "d" [] c = "B" -> "b"
      [] OTHER -> c

Upper(s) == [i \in 1..Len(s) |-> UpperChar(s[i])]

Lower(s) == [i \in 1..Len(s) |-> LowerChar(s[i])]

EndsWith(s, suf) ==
    /\ Len(s) >= Len(suf)
    /\ SubSeq(s, Len(s) - Len(suf) + 1, Len(s)) = suf

Contains(s, sub) ==
    \E i \in 1..(Len(s) - Len(sub) + 1) : SubSeq(s, i, i + Len(sub) - 1) = sub

Strip(s) ==
    LET idx == {i \in 1..Len(s) : s[i] # " "}
    IN  IF idx = {} THEN <<>>
        ELSE SubSeq(s, CHOOSE i \in idx : \A j \in idx : i <= j,
                       CHOOSE i \in idx : \A j \in idx : i >= j)

-----------------------------------------------------------------------------
(* Cells of the workbook *)

NoneCell == [kind |-> "none"]
StrCell(s) == [kind |-> "str", str |-> s]
DateTimeCell(d, hh, mm) == [kind |-> "datetime", date |-> d, hh |-> hh, mm |-> mm]

\* an int or a float; val is the value in hundredths (not negative)
NumCell(is_int, val) == [kind |-> "num", is_int |-> is_int, val |-> val]

\* an elapsed time (timedelta) of so many seconds (not negative)
TimedeltaCell(seconds) == [kind |-> "timedelta", seconds |-> seconds]

\* Python truthiness of a cell value
CellTruthy(c) ==
    CASE c.kind = "none" -> FALSE
      [] c.kind = "str" -> c.str # <<>>
      [] OTHER -> TRUE

\* str(value) of a cell value that is a string or None
PyStr(c) == IF c.kind = "str" THEN c.str ELSE sNoneText

-----------------------------------------------------------------------------
(* Dates *)

CumDays == <<0, 31, 59, 90, 120, 151, 181, 212, 243, 273, 304, 334>>

\* date(y, m, d) as a day number
DateOf(y, m, d) == (y - 2023) * 365 + (IF y > 2024 THEN 1 ELSE 0) + CumDays[m] + d

YearOf(d) == IF d <= 365 THEN 2023 ELSE 2024

MonthOf(d) ==
    LET doy == IF d <= 365 THEN d ELSE d - 365
    IN  CHOOSE m \in 1..12 :
            /\ CumDays[m] < doy
            /\ (m = 12 \/ doy <= CumDays[m + 1])

\* date.weekday(): Monday is 0
Weekday(d) == (d - 2) % 7

WeekDates(ws) == {ws + i : i \in 0..6}

-----------------------------------------------------------------------------
(* The inputs of an upload: week, workbook, manual unavailability *)

SeqsUpTo(S, n) == UNION {[1..k -> S] : k \in 0..n}

\* Mondays: 2023-05-29 (the week runs into June), 2023-06-26 (runs into
\* July), 2023-09-04 (the static vacation window ends on Thursday)
WeekStarts == {149, 177, 247}

\* the dates a request may name: the Mondays and the six days after the first
RequestDates == WeekStarts \cup 150..155

\* settings.MAX_FILE_SIZE
MAX_FILE_SIZE == 10485760

\* lengths of the uploaded content: the largest accepted one and one more
FileSizes == {MAX_FILE_SIZE, MAX_FILE_SIZE + 1}

\* upload_dir / f"{timestamp}_{file.filename}" with the content written
SavedFile(size) == [name |-> "upload.xlsx", size |-> size]

nearest_previous_monday(week_start_date) == week_start_date - Weekday(week_start_date)

\* a plausible slip: the days to next Monday taken from a Sunday-based weekday
nearest_next_monday_sunday_based(week_start_date) ==
    week_start_date + (6 - Weekday(week_start_date))

nearest_next_monday(week_start_date) == week_start_date + (7 - Weekday(week_start_date))

SeasonKeys == {"summer_mit_schule", "summer_ohne_schule",
               "winter_mit_schule", "winter_ohne_schule"}

s4 == <<"4">>
s4SA == <<"4", "S", "A">>
s4sa == <<"4", "s", "a">>
s4oS == <<"4", "o", "S">>
s5 == <<"5">>
s0600 == <<"0", "6", ":", "0", "0">>
s0700 == <<"0", "7", ":", "0", "0">>

\* rows of the driver sheet: name, Fixdienst mS (column 7), Fixdienst oS (column 8)
FreiDriverRow ==
    [name |-> StrCell(<<"A">>), fix_ms |-> StrCell(sFrei),
     fix_os |-> StrCell(<<"5", "+", "4">>)]

\* a row without a name
BlankDriverRow == [name |-> NoneCell, fix_ms |-> NoneCell, fix_os |-> NoneCell]

DriverRowSet ==
    { FreiDriverRow,
      [name |-> StrCell(<<"B", " ">>), fix_ms |-> StrCell(s4SA),
       fix_os |-> StrCell(<<"F", "r", "e", "i", " ">>)],
      [name |-> StrCell(<<"A">>), fix_ms |-> StrCell(sDI),
       fix_os |-> StrCell(<<"4", " ", "+", " ", "5">>)] }

AbsentLenker == [present |-> FALSE, rows |-> <<>>]

LenkerSheets ==
    {AbsentLenker, [present |-> TRUE, rows |-> <<BlankDriverRow, FreiDriverRow>>]}
    \cup {[present |-> TRUE, rows |-> r] : r \in SeqsUpTo(DriverRowSet, MaxDrivers)}

AbsentFeiertag == [present |-> FALSE, rows |-> <<>>]

\* rows of the holiday sheet: name, date
FeiertagSheets(ws) ==
    { AbsentFeiertag,
      [present |-> TRUE, rows |-> <<>>],
      [present |-> TRUE,
       rows |-> <<[name |-> StrCell(<<"F">>), date |-> DateTimeCell(ws + 2, 0, 0)]>>],
      [present |-> TRUE,
       rows |-> <<[name |-> StrCell(<<"F">>), date |-> DateTimeCell(ws + 5, 0, 0)],
                  [name |-> NoneCell, date |-> DateTimeCell(ws + 1, 0, 0)],
                  [name |-> StrCell(<<"N">>), date |-> DateTimeCell(ws + 8, 0, 0)]>>] }

AbsentDienstplan == [present |-> FALSE, has_band |-> FALSE, band |-> <<>>]

sSchule == <<"S", "c", "h", "u", "l", "e">>
sSchulfrei == <<"s", "c", "h", "u", "l", "f", "r", "e", "i">>
soS == <<"o", "S">>
smS == <<"m", "S">>

\* the planning grid: the columns of its date band, each a date and the cell
\* of the school-status row above it
DienstplanSheets(ws) ==
    { AbsentDienstplan,
      [present |-> TRUE, has_band |-> FALSE, band |-> <<>>],
      [present |-> TRUE, has_band |-> TRUE,
       band |-> [i \in 1..7 |-> [date |-> ws + i - 1, status |-> StrCell(sSchule)]]],
      [present |-> TRUE, has_band |-> TRUE,
       band |-> [i \in 1..8 |->
                   [date |-> ws + i - 2,
                    status |-> IF i <= 3 THEN StrCell(soS)
                               ELSE IF i = 4 THEN NoneCell ELSE StrCell(smS)]]],
      [present |-> TRUE, has_band |-> TRUE,
       band |-> [i \in 1..5 |-> [date |-> ws + i - 1, status |-> StrCell(sSchule)]]],
      [present |-> TRUE, has_band |-> TRUE,
       band |-> [i \in 1..5 |-> [date |-> ws + i - 1, status |-> StrCell(sSchulfrei)]]] }

AbsentDienste ==
    [present |-> FALSE, defs |-> <<>>, has_header |-> FALSE,
     act |-> [k \in SeasonKeys |-> <<>>]]

DefRow(code, ms, os) == [code |-> code, vad_ms |-> ms, vad_os |-> os]

\* the route sheet: the rows of the route-definition table (Dienst-Nr., VAD
\* mit Schule, VAD ohne Schule) and the four columns SmS, SoS, WmS, WoS
DienstDefs1 ==
    << DefRow(StrCell(s4), StrCell(s0600), StrCell(s0700)),
       DefRow(StrCell(s4SA), StrCell(s0600), NoneCell),
       DefRow(StrCell(s5), StrCell(sZero), StrCell(s0700)),
       DefRow(StrCell(sDI), NoneCell, NoneCell),
       DefRow(StrCell(<<"F", "T">>), NoneCell, NoneCell),
       DefRow(StrCell(s4oS), NoneCell, StrCell(s0600)) >>

DienstDefs2 ==
    << DefRow(StrCell(s4), StrCell(s0600), StrCell(s0600)),
       DefRow(StrCell(s4sa), DateTimeCell(0, 0, 0), StrCell(s0600)),
       DefRow(NoneCell, NoneCell, NoneCell),
       DefRow(StrCell(s5), DateTimeCell(0, 7, 0), StrCell(<<" ", "0", "0", ":", "0", "0">>)) >>

ActAll == << StrCell(s4), StrCell(s4SA), StrCell(s5), StrCell(sDI), StrCell(sMB) >>

DiensteSheets ==
    { AbsentDienste,
      [present |-> TRUE, defs |-> DienstDefs1, has_header |-> TRUE,
       act |-> [k \in SeasonKeys |-> Append(ActAll, StrCell(s4oS))]],
      [present |-> TRUE, defs |-> DienstDefs2, has_header |-> TRUE,
       act |-> [k \in SeasonKeys |->
                  CASE k = "summer_mit_schule" -> <<StrCell(s4), StrCell(s4sa)>>
                    [] k = "summer_ohne_schule" -> <<StrCell(s4sa), NoneCell, StrCell(s5)>>
                    [] k = "winter_mit_schule" ->
                         <<StrCell(s5), StrCell(<<"4", "-", "v", "o", "r">>),
                           StrCell(<<"S", "O", "F">>),
                           StrCell(<<"4", "-", "n", "a", "c", "h">>),
                           StrCell(<<"5", "-", "v", "o", "r">>)>>
                    [] OTHER -> <<StrCell(s4), StrCell(sMB), StrCell(s4)>>]],
      [present |-> TRUE, defs |-> DienstDefs1, has_header |-> FALSE,
       act |-> [k \in SeasonKeys |-> ActAll]] }

Workbooks(ws) ==
    [lenker : LenkerSheets, feiertag : FeiertagSheets(ws),
     dienstplan : DienstplanSheets(ws), dienste : DiensteSheets]

\* the values of the action parameter that pass validation
Actions == {"replace", "append"}

\* a date string of the request: valid ISO text of a date, or unparseable
IsoDate(d) == [valid |-> TRUE, date |-> d]
BadDate == [valid |-> FALSE, date |-> 0]

\* the 'reason' of an entry: a text, JSON null, or the key left out
Reason(text) == [kind |-> "str", text |-> text]
NullReason == [kind |-> "null", text |-> ""]
NoReason == [kind |-> "absent", text |-> ""]

\* the request's unavailable_drivers, already decoded from JSON
UnavailableLists(ws) ==
    { <<>>,
      << [driver_name |-> <<"A">>, dates |-> <<IsoDate(ws + 1), BadDate, IsoDate(ws + 5)>>,
          reason |-> Reason("V")],
         [driver_name |-> <<"Z">>, dates |-> <<IsoDate(ws)>>, reason |-> NoReason],
         [driver_name |-> <<"A">>, dates |-> <<IsoDate(ws + 1), IsoDate(ws + 3)>>,
          reason |-> NullReason] >> }

-----------------------------------------------------------------------------
(* ExcelParser: the driver sheet *)

LenkerStopKeywords ==
    { <<"S", "u", "m", "m", "e">>,
      <<"V", "o", "l", "l", "z", "e", "i", "t">>,
      <<"F", "e", "i", "e", "r", "t", "a", "g">>,
      <<"K", "r", "a", "n", "k", "e", "n", "s", "t", "a", "n", "d">> }

\* the Fixdienst cell of a driver row as stored in the driver's details
FixCode(c) ==
    IF CellTruthy(c) /\ c # StrCell(sNoneText) THEN Strip(PyStr(c)) ELSE None

RECURSIVE LenkerDrivers(_, _)
LenkerDrivers(rows, i) ==
    IF i > Len(rows) THEN <<>>
    ELSE IF ~CellTruthy(rows[i].name) THEN <<>>
    ELSE IF \E kw \in LenkerStopKeywords : Contains(Strip(PyStr(rows[i].name)), kw)
         THEN <<>>
    ELSE << [name |-> Strip(PyStr(rows[i].name)),
             fixed_route_with_school |-> FixCode(rows[i].fix_ms),
             fixed_route_without_school |-> FixCode(rows[i].fix_os)] >>
         \o LenkerDrivers(rows, i + 1)

parse_lenker_sheet(wb, dat) ==
    IF ~wb.lenker.present THEN dat
    ELSE [dat EXCEPT !.drivers = dat.drivers \o LenkerDrivers(wb.lenker.rows, 1)]

-----------------------------------------------------------------------------
(* ExcelParser: the holiday sheet *)

\* no date (None)
NoDate == 0

HolidayDate(c) == IF c.kind = "datetime" THEN c.date ELSE NoDate

RECURSIVE FeiertagHolidays(_, _)
FeiertagHolidays(rows, i) ==
    IF i > Len(rows) THEN <<>>
    ELSE (IF HolidayDate(rows[i].date) # NoDate /\ CellTruthy(rows[i].name)
          THEN << [date |-> HolidayDate(rows[i].date),
                   name |-> Strip(PyStr(rows[i].name))] >>
          ELSE <<>>)
         \o FeiertagHolidays(rows, i + 1)

parse_feiertag_sheet(wb, dat) ==
    IF ~wb.feiertag.present THEN dat
    ELSE [dat EXCEPT !.public_holidays =
              dat.public_holidays \o FeiertagHolidays(wb.feiertag.rows, 1)]

\* holiday_dates of _generate_weekly_routes and parse_fixed_assignments
HolidayDates(dat, ws) ==
    {dat.public_holidays[i].date : i \in
        {j \in 1..Len(dat.public_holidays) :
            ws <= dat.public_holidays[j].date /\ dat.public_holidays[j].date < ws + 7}}

-----------------------------------------------------------------------------
(* ExcelParser: the planning grid and the school days *)

SchoolFreeKeywords ==
    { <<"f", "r", "e", "i">>,
      <<"s", "c", "h", "u", "l", "f", "r", "e", "i">>,
      <<"o", "h", "n", "e">>,
      <<"f", "e", "r", "i", "e", "n">>,
      <<"v", "a", "c", "a", "t", "i", "o", "n">>,
      <<"h", "o", "l", "i", "d", "a", "y">>,
      <<"o", "s">>,
      <<"o", ".", "s">> }

\* is_school_day of one column of the date band
IsSchoolDay(cell) ==
    IF CellTruthy(cell)
    THEN ~(\E kw \in SchoolFreeKeywords : Contains(Lower(Strip(PyStr(cell))), kw))
    ELSE TRUE

\* dates_found: the last column of a date decides
DatesFound(band) ==
    [d \in {band[i].date : i \in 1..Len(band)} |->
        LET last == CHOOSE i \in 1..Len(band) :
                        /\ band[i].date = d
                        /\ \A j \in 1..Len(band) : band[j].date = d => j <= i
        IN  IsSchoolDay(band[last].status)]

TypicalVacations(year) ==
    { <<DateOf(year, 7, 1), DateOf(year, 9, 7)>>,
      <<DateOf(year, 12, 24), DateOf(year + 1, 1, 6)>>,
      <<DateOf(year - 1, 12, 24), DateOf(year, 1, 6)>>,
      <<DateOf(year, 2, 1), DateOf(year, 2, 7)>>,
      <<DateOf(year, 10, 26), DateOf(year, 11, 2)>> }

IsVacation(d, ws) == \E v \in TypicalVacations(YearOf(ws)) : v[1] <= d /\ d <= v[2]

\* writes an entry for each of the 7 dates of the week
_use_typical_school_calendar(sd, ws) ==
    [d \in (DOMAIN sd) \cup WeekDates(ws) |->
        IF d \in WeekDates(ws) THEN ~IsVacation(d, ws) ELSE sd[d]]

parse_dienstplan_sheet(wb, dat, ws) ==
    IF ~wb.dienstplan.present THEN dat
    ELSE IF ~wb.dienstplan.has_band
         THEN [dat EXCEPT !.school_days = _use_typical_school_calendar(@, ws)]
    ELSE LET found == DatesFound(wb.dienstplan.band)
             sd1 == [d \in (DOMAIN dat.school_days) \cup
                           (WeekDates(ws) \cap DOMAIN found) |->
                        IF d \in WeekDates(ws) \cap DOMAIN found
                        THEN found[d] ELSE dat.school_days[d]]
             missing_days == {d \in WeekDates(ws) : d \notin DOMAIN sd1}
         IN  [dat EXCEPT !.school_days =
                  IF missing_days # {} THEN _use_typical_school_calendar(sd1, ws)
                  ELSE sd1]

-----------------------------------------------------------------------------
(* ExcelParser: the route sheet *)

Digit(n) == <<"0", "1", "2", "3", "4", "5", "6", "7", "8", "9">>[n + 1]

\* strftime('%H:%M')
FormatHHMM(hh, mm) ==
    <<Digit(hh \div 10), Digit(hh % 10), ":", Digit(mm \div 10), Digit(mm % 10)>>

\* str(n) of an int that is not negative
RECURSIVE DecStr(_)
DecStr(n) == IF n < 10 THEN <<Digit(n)>> ELSE DecStr(n \div 10) \o <<Digit(n % 10)>>

\* f"{n:02d}"
Pad2(n) == IF n < 10 THEN <<"0", Digit(n)>> ELSE DecStr(n)

\* str(value) of an int or of a float with at most two decimal places
NumStr(c) ==
    IF c.is_int THEN DecStr(c.val \div 100)
    ELSE DecStr(c.val \div 100) \o <<".">>
         \o (IF c.val % 10 = 0 THEN <<Digit((c.val % 100) \div 10)>>
             ELSE <<Digit((c.val % 100) \div 10), Digit(c.val % 10)>>)

\* str(value) of a timedelta
TimedeltaStr(c) ==
    LET days == c.seconds \div 86400
        rest == c.seconds % 86400
    IN  (IF days = 0 THEN <<>>
         ELSE DecStr(days) \o (IF days = 1 THEN <<" ", "d", "a", "y", ",", " ">>
                               ELSE <<" ", "d", "a", "y", "s", ",", " ">>))
        \o DecStr(rest \div 3600) \o <<":">> \o Pad2((rest % 3600) \div 60)
        \o <<":">> \o Pad2(rest % 60)

\* a plausible slip: the test for '00:00' left out
_parse_time_keeps_zero(c) ==
    CASE c.kind = "none" -> None
      [] c.kind = "datetime" -> FormatHHMM(c.hh, c.mm)
      [] c.kind = "str" -> Strip(c.str)
      [] c.kind = "num" -> NumStr(c)
      [] OTHER -> TimedeltaStr(c)

\* time-of-day coercion
_parse_time(c) ==
    CASE c.kind = "none" -> None
      [] c.kind = "datetime" -> FormatHHMM(c.hh, c.mm)
      [] c.kind = "str" -> IF c.str = sZero THEN None ELSE Strip(c.str)
      [] c.kind = "num" -> NumStr(c)
      [] OTHER -> TimedeltaStr(c)

\* duration-as-hours coercion
_parse_time_to_hours(c) ==
    CASE c.kind = "none" -> None
      [] c.kind = "timedelta" ->
           Pad2(c.seconds \div 3600) \o <<":">> \o Pad2((c.seconds % 3600) \div 60)
      [] c.kind = "datetime" -> FormatHHMM(c.hh, c.mm)
      [] c.kind = "str" ->
           IF Strip(c.str) = sZero \/ Strip(c.str) = <<>> THEN sZero ELSE Strip(c.str)
      [] OTHER ->
           Pad2(c.val \div 100) \o <<":">> \o Pad2(((c.val % 100) * 60) \div 100)

Digits == {"0", "1", "2", "3", "4", "5", "6", "7", "8", "9"}

DigitVal(ch) == CHOOSE n \in 0..9 : Digit(n) = ch

RECURSIVE NatOf(_)
NatOf(s) == IF s = <<>> THEN 0 ELSE NatOf(SubSeq(s, 1, Len(s) - 1)) * 10 + DigitVal(s[Len(s)])

\* float(s) for the texts without exponent: [sign] digits [. digits], inf,
\* infinity, nan; val is the value in hundredths
PyFloat(s) ==
    LET t == Strip(s)
        signed == t # <<>> /\ t[1] \in {"+", "-"}
        body == IF signed THEN Tail(t) ELSE t
        neg == signed /\ t[1] = "-"
        dots == {i \in 1..Len(body) : body[i] = "."}
        dot == IF dots = {} THEN Len(body) + 1 ELSE CHOOSE i \in dots : TRUE
        whole == SubSeq(body, 1, dot - 1)
        frac == SubSeq(body, dot + 1, Len(body))
        frac2 == SubSeq(frac \o <<"0", "0">>, 1, 2)
    IN  IF Lower(body) \in {<<"i", "n", "f">>, <<"i", "n", "f", "i", "n", "i", "t", "y">>}
        THEN [kind |-> "inf", val |-> 0]
        ELSE IF Lower(body) = <<"n", "a", "n">> THEN [kind |-> "nan", val |-> 0]
        ELSE IF /\ Cardinality(dots) <= 1
                /\ \A i \in 1..Len(body) : body[i] \in Digits \cup {"."}
                /\ \E i \in 1..Len(body) : body[i] \in Digits
             THEN [kind |-> "finite",
                   val |-> (IF neg THEN -1 ELSE 1) * (NatOf(whole) * 100 + NatOf(frac2))]
        ELSE [kind |-> "ValueError", val |-> 0]

\* value.replace(old, new) with new one character or none
Replace(s, old, new) ==
    IF new = <<>> THEN SelectSeq(s, LAMBDA ch : ch # old)
    ELSE [i \in 1..Len(s) |-> IF s[i] = old THEN new[1] ELSE s[i]]

\* what a coercion gives back: nothing, a text, a number, or an exception
Returned(kind, str, val) == [kind |-> kind, str |-> str, val |-> val]

ReturnedNone == Returned("none", <<>>, 0)

ReturnedStr(x) == IF x = None THEN ReturnedNone ELSE Returned("str", x, 0)

Raised(exc) == Returned("raise", exc, 0)

\* int(x) of a float: toward zero
IntOf(val) == IF val >= 0 THEN val \div 100 ELSE -((-val) \div 100)

\* int(s) of a text: blanks around [sign] digits
PyInt(s) ==
    LET t == Strip(s)
        signed == t # <<>> /\ t[1] \in {"+", "-"}
        body == IF signed THEN Tail(t) ELSE t
    IN  IF body # <<>> /\ \A i \in 1..Len(body) : body[i] \in Digits
        THEN [ok |-> TRUE, val |-> (IF signed /\ t[1] = "-" THEN -1 ELSE 1) * NatOf(body)]
        ELSE [ok |-> FALSE, val |-> 0]

\* h, m = map(int, t.split(':')) and h * 60 + m; not ok when that raises
TotalMinutes(t) ==
    LET colons == {i \in 1..Len(t) : t[i] = ":"}
        at == CHOOSE i \in colons : TRUE
        h == PyInt(SubSeq(t, 1, at - 1))
        m == PyInt(SubSeq(t, at + 1, Len(t)))
    IN  IF Cardinality(colons) = 1 /\ h.ok /\ m.ok
        THEN [ok |-> TRUE, val |-> h.val * 60 + m.val]
        ELSE [ok |-> FALSE, val |-> 0]

\* f"{n:02d}" of any int
Pad2Signed(n) == IF n >= 0 THEN Pad2(n) ELSE <<"-">> \o DecStr(-n)

\* a plausible slip: the clamp at zero left out
_subtract_time_unclamped(time1, time2) ==
    LET t1 == TotalMinutes(time1)
        t2 == TotalMinutes(time2)
        result_minutes == t1.val - t2.val
    IN  IF ~t1.ok \/ ~t2.ok THEN sZero
        ELSE Pad2Signed(result_minutes \div 60) \o <<":">> \o Pad2Signed(result_minutes % 60)

_subtract_time(time1, time2) ==
    LET t1 == TotalMinutes(time1)
        t2 == TotalMinutes(time2)
        result_minutes == IF t1.val - t2.val < 0 THEN 0 ELSE t1.val - t2.val
    IN  IF ~t1.ok \/ ~t2.ok THEN sZero
        ELSE Pad2Signed(result_minutes \div 60) \o <<":">> \o Pad2Signed(result_minutes % 60)

\* monthly_hours_remaining of a driver with this target once the worked
\* hours of the planning grid are read
RemainingHours(target, ist_std) ==
    IF target # None /\ target # <<>> /\ ist_std # None /\ ist_std # <<>>
    THEN _subtract_time(target, ist_std)
    ELSE None

\* number coercion
_parse_number(c) ==
    CASE c.kind = "none" -> ReturnedNone
      [] c.kind = "num" -> Returned("float", <<>>, c.val)
      [] c.kind = "str" ->
           LET f == PyFloat(Replace(c.str, ",", <<".">>))
           IN  CASE f.kind = "ValueError" -> ReturnedNone
                 [] f.kind = "finite" -> Returned("float", <<>>, f.val)
                 [] OTHER -> Returned(f.kind, <<>>, 0)
      [] OTHER -> ReturnedNone

\* percentage coercion
_parse_percentage(c) ==
    CASE c.kind = "none" -> ReturnedNone
      [] c.kind = "num" -> Returned("int", <<>>, IntOf(c.val))
      [] c.kind = "str" ->
           LET f == PyFloat(Strip(Replace(c.str, "%", <<>>)))
           IN  CASE f.kind = "ValueError" -> ReturnedNone
                 [] f.kind = "nan" -> ReturnedNone
                 [] f.kind = "inf" ->
                      Raised(<<"O", "v", "e", "r", "f", "l", "o", "w", "E", "r", "r", "o", "r">>)
                 [] OTHER -> Returned("int", <<>>, IntOf(f.val))
      [] OTHER -> ReturnedNone

HeaderLabels ==
    { <<"D", "i", "e", "n", "s", "t", "-", "N", "r", ".">>,
      <<"D", "i", "e", "n", "s", "t", "-", "N", "r">> }

DefSkipCodes == { <<"F", "T">>, <<"K">>, <<"F", "R", "E", "I">>, <<"F">>, <<"U">> }

DefSpecialCodes == { sDI, sMB, sSOF }

\* the rows of the definition table that yield an entry
DefRowUsed(row) ==
    /\ CellTruthy(row.code)
    /\ PyStr(row.code) \notin HeaderLabels
    /\ Strip(PyStr(row.code)) \notin DefSkipCodes

\* route_defs: code -> definition, a later row of a code replaces an earlier
_parse_route_definitions(defs) ==
    LET used == {i \in 1..Len(defs) : DefRowUsed(defs[i])}
        codes == {Strip(PyStr(defs[i].code)) : i \in used}
    IN  [c \in codes |->
            LET last == CHOOSE i \in used :
                            /\ Strip(PyStr(defs[i].code)) = c
                            /\ \A j \in used : Strip(PyStr(defs[j].code)) = c => j <= i
            IN  IF c \in DefSpecialCodes
                THEN [dienst_nr |-> c, vad_mit_schule |-> None,
                      vad_ohne_schule |-> None, is_special_duty |-> TRUE]
                ELSE [dienst_nr |-> c, vad_mit_schule |-> _parse_time(defs[last].vad_ms),
                      vad_ohne_schule |-> _parse_time(defs[last].vad_os),
                      is_special_duty |-> FALSE]]

sVor == <<"-", "v", "o", "r">>
sNach == <<"-", "n", "a", "c", "h">>

IsVariant(r) == EndsWith(r, sVor) \/ EndsWith(r, sNach)

BaseOf(r) ==
    IF EndsWith(r, sVor) THEN SubSeq(r, 1, Len(r) - 4)
    ELSE SubSeq(r, 1, Len(r) - 5)

\* the keys of vor_nach_variants in insertion order
RECURSIVE VariantBases(_, _, _)
VariantBases(routes, i, seen) ==
    IF i > Len(routes) THEN <<>>
    ELSE IF IsVariant(routes[i]) /\ BaseOf(routes[i]) \notin seen
         THEN <<BaseOf(routes[i])>>
              \o VariantBases(routes, i + 1, seen \cup {BaseOf(routes[i])})
    ELSE VariantBases(routes, i + 1, seen)

\* a plausible slip: the test whether the base code is listed left out
_filter_to_base_routes_all_bases(routes) ==
    LET other_routes == SelectSeq(routes, LAMBDA r : ~IsVariant(r))
    IN  other_routes \o VariantBases(routes, 1, {})

_filter_to_base_routes(routes) ==
    LET other_routes == SelectSeq(routes, LAMBDA r : ~IsVariant(r))
        base_routes_in_list == {other_routes[i] : i \in 1..Len(other_routes)}
    IN  other_routes \o
        SelectSeq(VariantBases(routes, 1, {}), LAMBDA b : b \notin base_routes_in_list)

ActSkipCodes == { <<"F", "T">>, <<"K">>, <<"F">>, <<"U">>, sSOF }

\* routes_all of one column of the seasonal table
RECURSIVE ColumnRoutes(_, _)
ColumnRoutes(cells, i) ==
    IF i > Len(cells) THEN <<>>
    ELSE (IF ~CellTruthy(cells[i]) \/ Strip(PyStr(cells[i])) = <<>>
             \/ Strip(PyStr(cells[i])) \in ActSkipCodes
          THEN <<>>
          ELSE <<Strip(PyStr(cells[i]))>>)
         \o ColumnRoutes(cells, i + 1)

_parse_seasonal_routes(sheet) ==
    IF ~sheet.has_header THEN [k \in SeasonKeys |-> <<>>]
    ELSE [k \in SeasonKeys |-> _filter_to_base_routes(ColumnRoutes(sheet.act[k], 1))]

_get_season_for_date(d) ==
    IF 6 <= MonthOf(d) /\ MonthOf(d) <= 9 THEN "summer" ELSE "winter"

_get_season_key(season, school_status) ==
    CASE season = "summer" /\ school_status = "mit_schule" -> "summer_mit_schule"
      [] season = "summer" /\ school_status = "ohne_schule" -> "summer_ohne_schule"
      [] season = "winter" /\ school_status = "mit_schule" -> "winter_mit_schule"
      [] season = "winter" /\ school_status = "ohne_schule" -> "winter_ohne_schule"

\* self.data['school_days'].get(current_date, True)
SchoolDayOf(dat, d) == IF d \in DOMAIN dat.school_days THEN dat.school_days[d] ELSE TRUE

SchoolStatusOf(dat, d) == IF SchoolDayOf(dat, d) THEN "mit_schule" ELSE "ohne_schule"

Route(d, name, type, vad, season, status) ==
    [date |-> d, route_name |-> name, day_of_week |-> Weekday(d), type |-> type,
     vad_time |-> vad, season |-> season, school_status |-> status]

\* a plausible slip: the Saturday marker compared case-sensitively
IsSaturdayRoute_case_sensitive(route_name) == EndsWith(route_name, sSA)

\* route_name.upper().endswith('SA')
IsSaturdayRoute(route_name) == EndsWith(Upper(route_name), sSA)

\* a plausible slip: only the absent run time is skipped
NoRunTime_absent_only(vad_time) == vad_time = None

\* not vad_time or vad_time == '00:00'
NoRunTime(vad_time) == vad_time = None \/ vad_time = <<>> \/ vad_time = sZero

\* the routes appended for applicable_routes[i..] on one date
RECURSIVE DayRoutes(_, _, _, _, _, _)
DayRoutes(d, day_offset, dat, route_definitions, applicable_routes, i) ==
    IF i > Len(applicable_routes) THEN <<>>
    ELSE
      LET route_name == applicable_routes[i]
          season == _get_season_for_date(d)
          school_status == SchoolStatusOf(dat, d)
          defined == route_name \in DOMAIN route_definitions
          vad_time == IF SchoolDayOf(dat, d)
                      THEN route_definitions[route_name].vad_mit_schule
                      ELSE route_definitions[route_name].vad_ohne_schule
          rest == DayRoutes(d, day_offset, dat, route_definitions, applicable_routes, i + 1)
      IN  IF day_offset = 5
          THEN (IF ~IsSaturdayRoute(route_name) THEN <<>>
                ELSE IF ~defined THEN <<>>
                ELSE IF NoRunTime(vad_time) THEN <<>>
                ELSE <<Route(d, route_name, "saturday", vad_time, season, school_status)>>)
               \o rest
          ELSE (IF IsSaturdayRoute(route_name) THEN <<>>
                ELSE IF ~defined
                     THEN (IF route_name \in {sDI, sMB}
                           THEN <<Route(d, route_name, "special_duty", None,
                                        season, school_status)>>
                           ELSE <<>>)
                ELSE IF NoRunTime(vad_time) THEN <<>>
                ELSE <<Route(d, route_name, "regular", vad_time, season, school_status)>>)
               \o rest

\* a plausible slip: the holiday test left out
RECURSIVE WeekRoutes_no_holiday_skip(_, _, _, _, _)
WeekRoutes_no_holiday_skip(ws, day_offset, dat, route_definitions, seasonal) ==
    IF day_offset > 6 THEN <<>>
    ELSE
      LET d == ws + day_offset
          season_key == _get_season_key(_get_season_for_date(d), SchoolStatusOf(dat, d))
      IN  (IF day_offset = 6 THEN <<>>
           ELSE DayRoutes(d, day_offset, dat, route_definitions, seasonal[season_key], 1))
          \o WeekRoutes_no_holiday_skip(ws, day_offset + 1, dat, route_definitions, seasonal)

RECURSIVE WeekRoutes(_, _, _, _, _)
WeekRoutes(ws, day_offset, dat, route_definitions, seasonal) ==
    IF day_offset > 6 THEN <<>>
    ELSE
      LET d == ws + day_offset
          season_key == _get_season_key(_get_season_for_date(d), SchoolStatusOf(dat, d))
      IN  (IF d \in HolidayDates(dat, ws) THEN <<>>
           ELSE IF day_offset = 6 THEN <<>>
           ELSE DayRoutes(d, day_offset, dat, route_definitions, seasonal[season_key], 1))
          \o WeekRoutes(ws, day_offset + 1, dat, route_definitions, seasonal)

_generate_weekly_routes(ws, route_definitions, dat, seasonal) ==
    [dat EXCEPT !.routes = dat.routes \o WeekRoutes(ws, 0, dat, route_definitions, seasonal)]

-----------------------------------------------------------------------------
(* ExcelParser: fixed assignments *)

\* a plausible slip: the last part of the split is taken
PrimaryRoute_last_part(fixed_route) ==
    LET plus == {i \in 1..Len(fixed_route) : fixed_route[i] = "+"}
    IN  IF plus = {} THEN Strip(fixed_route)
        ELSE Strip(SubSeq(fixed_route, (CHOOSE i \in plus : \A j \in plus : i >= j) + 1,
                          Len(fixed_route)))

\* [r.strip() for r in fixed_route.split('+')][0]
PrimaryRoute(fixed_route) ==
    LET plus == {i \in 1..Len(fixed_route) : fixed_route[i] = "+"}
    IN  IF plus = {} THEN Strip(fixed_route)
        ELSE Strip(SubSeq(fixed_route, 1, (CHOOSE i \in plus : \A j \in plus : i <= j) - 1))

\* a plausible slip: the lookup is keyed by the route name alone
RouteLookup_any_date(dat) ==
    {<<dat.routes[i].route_name, dat.routes[j].date>> :
        i \in 1..Len(dat.routes), j \in 1..Len(dat.routes)}

\* route_lookup: the (route_name, date) keys of the routes generated so far
RouteLookup(dat) == {<<dat.routes[i].route_name, dat.routes[i].date>> : i \in 1..Len(dat.routes)}

\* the days of the week that parse_fixed_assignments visits
FixedDayOffsets == 0..6

\* what one (driver, date) appends: availability records and fixed assignments
FixedOutcome(driver, d, dat, ws) ==
    LET is_school_day == SchoolDayOf(dat, d)
        school_status == SchoolStatusOf(dat, d)
        fixed_route_raw == IF is_school_day THEN driver.fixed_route_with_school
                           ELSE driver.fixed_route_without_school
        route_suffix == IF is_school_day THEN smS ELSE soS
        fixed_route == Strip(fixed_route_raw)
        primary_route_base == PrimaryRoute(fixed_route)
        primary_route_with_suffix == primary_route_base \o route_suffix
        nothing == [avail |-> <<>>, fixed |-> <<>>]
        Assign(name) == [avail |-> <<>>,
                         fixed |-> <<[driver_name |-> driver.name, route_name |-> name,
                                      date |-> d]>>]
    IN  IF d \in HolidayDates(dat, ws) THEN nothing
        ELSE IF fixed_route_raw = None \/ fixed_route_raw = <<>>
                \/ fixed_route_raw = sNoneText \/ Strip(fixed_route_raw) = <<>>
             THEN nothing
        ELSE IF Lower(fixed_route) = sFrei
             THEN [avail |-> <<[driver_name |-> driver.name, date |-> d,
                                available |-> FALSE,
                                notes |-> IF is_school_day
                                          THEN "Fixdienst: frei (mit_schule)"
                                          ELSE "Fixdienst: frei (ohne_schule)"]>>,
                   fixed |-> <<>>]
        ELSE IF fixed_route \in {sMB, sDI}
             THEN (IF <<fixed_route, d>> \in RouteLookup(dat) THEN Assign(fixed_route)
                   ELSE nothing)
        ELSE IF <<primary_route_with_suffix, d>> \in RouteLookup(dat)
             THEN Assign(primary_route_with_suffix)
        ELSE IF <<primary_route_base, d>> \in RouteLookup(dat)
             THEN Assign(primary_route_base)
        ELSE nothing

\* the (driver, day) pairs in the order of the two nested loops
RECURSIVE FixedOutcomes(_, _, _, _)
FixedOutcomes(dat, ws, n, offsets) ==
    IF n > Len(dat.drivers) THEN [avail |-> <<>>, fixed |-> <<>>]
    ELSE IF offsets = {} THEN FixedOutcomes(dat, ws, n + 1, FixedDayOffsets)
    ELSE LET o == CHOOSE x \in offsets : \A y \in offsets : x <= y
             here == FixedOutcome(dat.drivers[n], ws + o, dat, ws)
             rest == FixedOutcomes(dat, ws, n, offsets \ {o})
         IN  [avail |-> here.avail \o rest.avail, fixed |-> here.fixed \o rest.fixed]

parse_fixed_assignments(dat, ws) ==
    LET out == FixedOutcomes(dat, ws, 1, FixedDayOffsets)
    IN  [dat EXCEPT !.driver_availability = @ \o out.avail,
                    !.fixed_assignments = @ \o out.fixed]

-----------------------------------------------------------------------------
(* DatabaseService *)

NullNotes == [null |-> TRUE, parts |-> <<>>]

\* a note text; text is the fixed wording and arg the inserted name
Notes(text, arg) == [null |-> FALSE, parts |-> <<[text |-> text, arg |-> arg]>>]

EmptyDb ==
    [drivers |-> {}, routes |-> {}, availability |-> {}, fixed |-> {},
     seq |-> [drivers |-> 1, routes |-> 1, availability |-> 1, fixed |-> 1]]

\* clear_all_week_data with reset_sequences
clear_all_week_data(d) == EmptyDb

\* returns the new tables and the driver_id
upsert_driver(d, name) ==
    LET existing == {r \in d.drivers : r.name = name}
    IN  IF existing # {}
        THEN [db |-> d, id |-> (CHOOSE r \in existing : TRUE).driver_id]
        ELSE [db |-> [d EXCEPT !.drivers = @ \cup {[driver_id |-> d.seq.drivers,
                                                    name |-> name]},
                               !.seq.drivers = @ + 1],
              id |-> d.seq.drivers]

\* returns the new tables and the route_id
create_route(d, route) ==
    LET existing == {r \in d.routes : r.route.route_name = route.route_name
                                      /\ r.route.date = route.date}
        old == CHOOSE r \in existing : TRUE
    IN  IF existing # {}
        THEN [db |-> [d EXCEPT !.routes = (@ \ {old}) \cup {[old EXCEPT !.route = route]}],
              id |-> old.route_id]
        ELSE [db |-> [d EXCEPT !.routes = @ \cup {[route_id |-> d.seq.routes,
                                                   route |-> route]},
                               !.seq.routes = @ + 1],
              id |-> d.seq.routes]

\* the literal '; ' of the UPDATE statement
NotesSeparator == [text |-> "; ", arg |-> <<>>]

\* a plausible slip: the new note replaces the old one
MergedNotes_overwrite(old, new) ==
    IF new.null THEN old ELSE new

\* the notes column after the UPDATE
MergedNotes(old, new) ==
    IF new.null THEN old
    ELSE IF old.null THEN new
    ELSE [null |-> FALSE, parts |-> old.parts \o <<NotesSeparator>> \o new.parts]

\* a plausible slip: the row is inserted without looking for an existing one
create_availability_always_insert(d, driver_id, date, available, notes) ==
    [d EXCEPT !.availability =
        @ \cup {[id |-> d.seq.availability, driver_id |-> driver_id,
                 date |-> date, available |-> available, notes |-> notes]},
              !.seq.availability = @ + 1]

\* insert, or update the row of (driver_id, date)
create_availability(d, driver_id, date, available, notes) ==
    LET existing == {r \in d.availability : r.driver_id = driver_id /\ r.date = date}
        old == CHOOSE r \in existing : TRUE
    IN  IF existing # {}
        THEN [d EXCEPT !.availability =
                 (@ \ {old}) \cup {[old EXCEPT !.available = available,
                                               !.notes = MergedNotes(old.notes, notes)]}]
        ELSE [d EXCEPT !.availability =
                 @ \cup {[id |-> d.seq.availability, driver_id |-> driver_id,
                          date |-> date, available |-> available, notes |-> notes]},
                       !.seq.availability = @ + 1]

create_fixed_assignment(d, driver_id, route_id, date) ==
    IF \E r \in d.fixed : r.driver_id = driver_id /\ r.date = date /\ r.route_id = route_id
    THEN d
    ELSE [d EXCEPT !.fixed = @ \cup {[id |-> d.seq.fixed, driver_id |-> driver_id,
                                      route_id |-> route_id, date |-> date]},
                   !.seq.fixed = @ + 1]

-----------------------------------------------------------------------------
(* upload_weekly_plan: the steps after the workbook is parsed *)

RECURSIVE FoldSeq(_, _, _, _)
FoldSeq(Op(_, _), acc, seq, i) ==
    IF i > Len(seq) THEN acc ELSE FoldSeq(Op, Op(acc, seq[i]), seq, i + 1)

\* driver_id_map is a dict: the entries in insertion order
MapHas(map, name) == \E i \in 1..Len(map) : map[i].name = name

MapGet(map, name) == map[CHOOSE i \in 1..Len(map) : map[i].name = name].id

MapSet(map, name, id) ==
    IF MapHas(map, name)
    THEN [i \in 1..Len(map) |-> IF map[i].name = name THEN [name |-> name, id |-> id]
                                ELSE map[i]]
    ELSE Append(map, [name |-> name, id |-> id])

_determine_season_and_school(ws, school_days) ==
    [season |-> IF 6 <= MonthOf(ws) /\ MonthOf(ws) <= 9 THEN "summer" ELSE "winter",
     school_status |-> IF \E d \in WeekDates(ws) :
                              d \in DOMAIN school_days /\ ~school_days[d]
                       THEN "ohne_schule" ELSE "mit_schule"]

\* 1. drivers
InsertDrivers(d, drivers) ==
    FoldSeq(LAMBDA acc, driver :
                LET r == upsert_driver(acc.db, driver.name)
                IN  [db |-> r.db, map |-> MapSet(acc.map, driver.name, r.id)],
            [db |-> d, map |-> <<>>], drivers, 1)

\* 2. routes
InsertRoutes(d, routes) ==
    FoldSeq(LAMBDA acc, route :
                LET r == create_route(acc.db, route)
                IN  [db |-> r.db,
                     map |-> (<<route.route_name, route.date>> :> r.id) @@ acc.map],
            [db |-> d, map |-> <<>>], routes, 1)

\* 3. public holidays: every driver unavailable
ProcessHolidays(d, holidays, map, ws) ==
    FoldSeq(LAMBDA acc, holiday :
                IF ws <= holiday.date /\ holiday.date < ws + 7
                THEN FoldSeq(LAMBDA acc2, entry :
                                 create_availability(acc2, entry.id, holiday.date, FALSE,
                                                     Notes("Feiertag: ", holiday.name)),
                             acc, map, 1)
                ELSE acc,
            d, holidays, 1)

\* 4. fixed assignments
ProcessFixedAssignments(d, assignments, map, rmap) ==
    FoldSeq(LAMBDA acc, a :
                IF ~MapHas(map, a.driver_name) THEN acc
                ELSE IF <<a.route_name, a.date>> \notin DOMAIN rmap THEN acc
                ELSE create_fixed_assignment(acc, MapGet(map, a.driver_name),
                                             rmap[<<a.route_name, a.date>>], a.date),
            d, assignments, 1)

\* 5. availability records of the parser ('frei')
ProcessParsedAvailability(d, availability, map) ==
    FoldSeq(LAMBDA acc, a :
                IF ~MapHas(map, a.driver_name) THEN acc
                ELSE [db |-> create_availability(acc.db, MapGet(map, a.driver_name), a.date,
                                                 a.available, Notes(a.notes, <<>>)),
                      set |-> acc.set \cup {<<MapGet(map, a.driver_name), a.date>>}],
            [db |-> d, set |-> {}], availability, 1)

\* unavailable.get('reason', 'Manually set unavailable') as the notes argument
ManualNotes(reason) ==
    CASE reason.kind = "absent" -> Notes("Manually set unavailable", <<>>)
      [] reason.kind = "null" -> NullNotes
      [] OTHER -> Notes(reason.text, <<>>)

\* manual unavailability of the request
ProcessManual(d, uset, list, map) ==
    FoldSeq(LAMBDA acc, u :
                IF ~MapHas(map, u.driver_name) THEN acc
                ELSE FoldSeq(LAMBDA acc2, date_str :
                                 IF ~date_str.valid THEN acc2
                                 ELSE [db |-> create_availability(
                                                  acc2.db, MapGet(map, u.driver_name),
                                                  date_str.date, FALSE, ManualNotes(u.reason)),
                                       set |-> acc2.set \cup
                                               {<<MapGet(map, u.driver_name), date_str.date>>}],
                             acc, u.dates, 1),
            [db |-> d, set |-> uset], list, 1)

\* default records for all drivers and all days of the week
DefaultAvailability(d, uset, map, ws) ==
    FoldSeq(LAMBDA acc, entry :
                FoldSeq(LAMBDA acc2, day_offset :
                            IF <<entry.id, ws + day_offset>> \in uset THEN acc2
                            ELSE create_availability(acc2, entry.id, ws + day_offset, TRUE,
                                                     Notes("Available", <<>>)),
                        acc, <<0, 1, 2, 3, 4, 5, 6>>, 1),
            d, map, 1)

-----------------------------------------------------------------------------
(* The state machine *)

NoWorkbook ==
    [lenker |-> AbsentLenker, feiertag |-> AbsentFeiertag,
     dienstplan |-> AbsentDienstplan, dienste |-> AbsentDienste]

\* a plausible slip: the result dict is shared between parser instances and
\* still holds the roster of the previous upload
FreshData_shared ==
    [routes |-> <<>>,
     drivers |-> <<[name |-> <<"Q">>, fixed_route_with_school |-> None,
                    fixed_route_without_school |-> None]>>,
     public_holidays |-> <<>>, driver_availability |-> <<>>,
     fixed_assignments |-> <<>>, school_days |-> <<>>]

\* ExcelParser.__init__: the empty result
FreshData ==
    [routes |-> <<>>, drivers |-> <<>>, public_holidays |-> <<>>,
     driver_availability |-> <<>>, fixed_assignments |-> <<>>, school_days |-> <<>>]

NoSeasonalRoutes == [k \in SeasonKeys |-> <<>>]

NoResponse ==
    [status |-> 0, detail |-> "", previous_monday |-> 0, next_monday |-> 0,
     season |-> "", school_status |-> ""]

\* the upload requests that may run at the same time
UploadIds == {1, 2}

\* an upload request that has not arrived yet
NoHandler ==
    [pc |-> "idle", status |-> 0, week_start |-> 0, data |-> FreshData,
     driver_id_map |-> <<>>, route_id_map |-> <<>>, before |-> EmptyDb]

NoHandlers == [u \in UploadIds |-> NoHandler]

\* the weeks get_availability_for_week is asked for: the week of 2023-05-29
\* and the week after it
CacheWeeks == {149, 156}

\* AVAILABILITY_CACHE.get(cache_key) is None
NoEntry == [cached |-> FALSE, at |-> 0, result |-> <<>>]

NoRead == [week |-> 0, at |-> 0, result |-> <<>>]

\* the module-level cache of database_service.py after import
NoCache ==
    /\ AVAILABILITY_CACHE = [w \in CacheWeeks |-> NoEntry]
    /\ now = 0
    /\ read = NoRead

\* no notification call has been made
NoReply == [op |-> "", status |-> 0]

\* the module-level state of notifications.py after import
NoNotifications ==
    /\ _NOTIFICATIONS = <<>>
    /\ DEDUP_KEYS = {}
    /\ uuid = 0
    /\ reply = NoReply

\* no coercion has been applied
NotCoerced == [op |-> "", result |-> ReturnedNone]

\* the tables as an earlier upload for the week of 2023-05-29 left them
StaleDb ==
    [drivers |-> {[driver_id |-> 1, name |-> <<"Q">>]},
     routes |-> {[route_id |-> 1,
                  route |-> Route(149, s4, "regular", s0600, "winter", "mit_schule")]},
     availability |-> {[id |-> i + 1, driver_id |-> 1, date |-> 149 + i,
                        available |-> TRUE, notes |-> Notes("Available", <<>>)] : i \in 0..6},
     fixed |-> {[id |-> 1, driver_id |-> 1, route_id |-> 1, date |-> 149]},
     seq |-> [drivers |-> 2, routes |-> 2, availability |-> 8, fixed |-> 2]]

Init ==
    /\ pc = "idle"
    /\ week_start = 0
    /\ action = ""
    /\ workbook = NoWorkbook
    /\ unavailable_list = <<>>
    /\ data = FreshData
    /\ seasonal_routes = NoSeasonalRoutes
    /\ response = NoResponse
    /\ driver_id_map = <<>>
    /\ route_id_map = <<>>
    /\ unavailable_set = {}
    /\ db = StaleDb
    /\ cell_value = NoneCell
    /\ coerced = NotCoerced
    /\ upload_dir = {}
    /\ file_size = 0
    /\ NoNotifications
    /\ NoCache
    /\ handlers = NoHandlers

\* the request is accepted, the file saved and the parser constructed
RejectNotMonday ==
    /\ pc = "idle"
    /\ \E ws \in RequestDates :
         /\ Weekday(ws) # 0
         /\ week_start' = ws
         /\ response' = [NoResponse EXCEPT
                           !.status = 400,
                           !.detail = "week_start must be a Monday",
                           !.previous_monday = nearest_previous_monday(ws),
                           !.next_monday = nearest_next_monday(ws)]
    /\ pc' = "rejected"
    /\ UNCHANGED <<upload_dir, file_size, other_services, cell_value, coerced, action, workbook, unavailable_list,
                   data, seasonal_routes, driver_id_map, route_id_map, unavailable_set, db>>

\* the file is opened for writing and its content read; the HTTPException for
\* an oversized content is raised inside the try block, whose handler turns
\* every exception into a 500; nothing removes the opened file
RejectTooLarge ==
    /\ pc = "idle"
    /\ \E ws \in RequestDates, size \in FileSizes :
         /\ Weekday(ws) = 0
         /\ size > MAX_FILE_SIZE
         /\ week_start' = ws
         /\ file_size' = size
    /\ \E a \in Actions : action' = a
    /\ upload_dir' = upload_dir \cup {SavedFile(0)}
    /\ response' = [NoResponse EXCEPT !.status = 500, !.detail = "Failed to save file"]
    /\ pc' = "rejected"
    /\ UNCHANGED <<other_services, cell_value, coerced, workbook, unavailable_list, data, seasonal_routes,
                   driver_id_map, route_id_map, unavailable_set, db>>

Request ==
    /\ pc = "idle"
    /\ \E ws \in RequestDates, size \in FileSizes :
         /\ Weekday(ws) = 0
         /\ size <= MAX_FILE_SIZE
         /\ file_size' = size
         /\ upload_dir' = upload_dir \cup {SavedFile(size)}
         /\ week_start' = ws
         /\ \E wb \in Workbooks(ws) : workbook' = wb
         /\ \E ul \in UnavailableLists(ws) : unavailable_list' = ul
    /\ \E a \in Actions : action' = a
    /\ data' = FreshData
    /\ seasonal_routes' = NoSeasonalRoutes
    /\ pc' = "parse_lenker"
    /\ UNCHANGED <<other_services, cell_value, coerced, response, driver_id_map, route_id_map, unavailable_set, db>>

ParseLenker ==
    /\ pc = "parse_lenker"
    /\ data' = parse_lenker_sheet(workbook, data)
    /\ pc' = "parse_feiertag"
    /\ UNCHANGED <<upload_dir, file_size, other_services, cell_value, coerced, week_start, action, workbook, unavailable_list, seasonal_routes, response,
                   driver_id_map, route_id_map, unavailable_set, db>>

\* a plausible slip: parse_all goes on with the route sheet
ParseFeiertag_then_dienste ==
    /\ pc = "parse_feiertag"
    /\ data' = parse_feiertag_sheet(workbook, data)
    /\ pc' = "parse_dienste"
    /\ UNCHANGED <<upload_dir, file_size, other_services, cell_value, coerced, week_start, action, workbook, unavailable_list, seasonal_routes, response,
                   driver_id_map, route_id_map, unavailable_set, db>>

ParseFeiertag ==
    /\ pc = "parse_feiertag"
    /\ data' = parse_feiertag_sheet(workbook, data)
    /\ pc' = "parse_dienstplan"
    /\ UNCHANGED <<upload_dir, file_size, other_services, cell_value, coerced, week_start, action, workbook, unavailable_list, seasonal_routes, response,
                   driver_id_map, route_id_map, unavailable_set, db>>

ParseDienstplan ==
    /\ pc = "parse_dienstplan"
    /\ data' = parse_dienstplan_sheet(workbook, data, week_start)
    /\ pc' = "parse_dienste"
    /\ UNCHANGED <<upload_dir, file_size, other_services, cell_value, coerced, week_start, action, workbook, unavailable_list, seasonal_routes, response,
                   driver_id_map, route_id_map, unavailable_set, db>>

ParseDienste ==
    /\ pc = "parse_dienste"
    /\ IF ~workbook.dienste.present
       THEN UNCHANGED <<data, seasonal_routes>>
       ELSE /\ seasonal_routes' = _parse_seasonal_routes(workbook.dienste)
            /\ data' = _generate_weekly_routes(
                           week_start, _parse_route_definitions(workbook.dienste.defs),
                           data, seasonal_routes')
    /\ pc' = "parse_fixed"
    /\ UNCHANGED <<upload_dir, file_size, other_services, cell_value, coerced, week_start, action, workbook, unavailable_list, response,
                   driver_id_map, route_id_map, unavailable_set, db>>

ParseFixedAssignments ==
    /\ pc = "parse_fixed"
    /\ data' = parse_fixed_assignments(data, week_start)
    /\ pc' = "determine"
    /\ UNCHANGED <<upload_dir, file_size, other_services, cell_value, coerced, week_start, action, workbook, unavailable_list, seasonal_routes, response,
                   driver_id_map, route_id_map, unavailable_set, db>>

DetermineSeason ==
    /\ pc = "determine"
    /\ response' = [response EXCEPT
                      !.season = _determine_season_and_school(week_start, data.school_days).season,
                      !.school_status =
                          _determine_season_and_school(week_start, data.school_days).school_status]
    /\ pc' = "clear"
    /\ UNCHANGED <<upload_dir, file_size, other_services, cell_value, coerced, week_start, action, workbook, unavailable_list, data, seasonal_routes,
                   driver_id_map, route_id_map, unavailable_set, db>>

ClearAll ==
    /\ pc = "clear"
    /\ db' = clear_all_week_data(db)
    /\ pc' = "drivers"
    /\ UNCHANGED <<upload_dir, file_size, other_services, cell_value, coerced, week_start, action, workbook, unavailable_list, data, seasonal_routes, response,
                   driver_id_map, route_id_map, unavailable_set>>

StoreDrivers ==
    /\ pc = "drivers"
    /\ LET r == InsertDrivers(db, data.drivers)
       IN  db' = r.db /\ driver_id_map' = r.map
    /\ pc' = "routes"
    /\ UNCHANGED <<upload_dir, file_size, other_services, cell_value, coerced, week_start, action, workbook, unavailable_list, data, seasonal_routes, response,
                   route_id_map, unavailable_set>>

StoreRoutes ==
    /\ pc = "routes"
    /\ LET r == InsertRoutes(db, data.routes)
       IN  db' = r.db /\ route_id_map' = r.map
    /\ pc' = "holidays"
    /\ UNCHANGED <<upload_dir, file_size, other_services, cell_value, coerced, week_start, action, workbook, unavailable_list, data, seasonal_routes, response,
                   driver_id_map, unavailable_set>>

StoreHolidays ==
    /\ pc = "holidays"
    /\ db' = ProcessHolidays(db, data.public_holidays, driver_id_map, week_start)
    /\ pc' = "fixed"
    /\ UNCHANGED <<upload_dir, file_size, other_services, cell_value, coerced, week_start, action, workbook, unavailable_list, data, seasonal_routes, response,
                   driver_id_map, route_id_map, unavailable_set>>

StoreFixedAssignments ==
    /\ pc = "fixed"
    /\ db' = ProcessFixedAssignments(db, data.fixed_assignments, driver_id_map, route_id_map)
    /\ pc' = "availability"
    /\ UNCHANGED <<upload_dir, file_size, other_services, cell_value, coerced, week_start, action, workbook, unavailable_list, data, seasonal_routes, response,
                   driver_id_map, route_id_map, unavailable_set>>

\* parsed ('frei') and manual unavailability, then the default records
StoreAvailability ==
    /\ pc = "availability"
    /\ LET p == ProcessParsedAvailability(db, data.driver_availability, driver_id_map)
           m == ProcessManual(p.db, p.set, unavailable_list, driver_id_map)
       IN  /\ unavailable_set' = m.set
           /\ db' = DefaultAvailability(m.db, m.set, driver_id_map, week_start)
    /\ pc' = "respond"
    /\ UNCHANGED <<upload_dir, file_size, other_services, cell_value, coerced, week_start, action, workbook, unavailable_list, data, seasonal_routes, response,
                   driver_id_map, route_id_map>>

Respond ==
    /\ pc = "respond"
    /\ response' = [response EXCEPT !.status = 200]
    /\ upload_dir' = upload_dir \ {SavedFile(file_size)}
    /\ pc' = "done"
    /\ UNCHANGED <<file_size, other_services, cell_value, coerced, week_start, action, workbook, unavailable_list, data, seasonal_routes,
                   driver_id_map, route_id_map, unavailable_set, db>>

Next ==
    \/ RejectNotMonday
    \/ RejectTooLarge
    \/ Request
    \/ ParseLenker
    \/ ParseFeiertag
    \/ ParseDienstplan
    \/ ParseDienste
    \/ ParseFixedAssignments
    \/ DetermineSeason
    \/ ClearAll
    \/ StoreDrivers
    \/ StoreRoutes
    \/ StoreHolidays
    \/ StoreFixedAssignments
    \/ StoreAvailability
    \/ Respond

Spec == Init /\ [][Next]_vars

-----------------------------------------------------------------------------
(* DatabaseService.create_availability called directly, in any order *)

AvailDrivers == {1, 2}

AvailDates == {149}

AvailNotes == {NullNotes, Notes("a", <<>>), Notes("b", <<>>)}

\* two drivers exist; no availability row yet
(* Upload requests on one database: each handler runs on its own pooled
   connection, every statement commits by itself, and the event loop may
   switch to the other handler at every await *)

\* ExcelParser.parse_all
parse_all(wb, ws) ==
    LET lenker == parse_lenker_sheet(wb, FreshData)
        feiertag == parse_feiertag_sheet(wb, lenker)
        dienstplan == parse_dienstplan_sheet(wb, feiertag, ws)
        dienste == IF ~wb.dienste.present THEN dienstplan
                   ELSE _generate_weekly_routes(
                            ws, _parse_route_definitions(wb.dienste.defs),
                            dienstplan, _parse_seasonal_routes(wb.dienste))
    IN  parse_fixed_assignments(dienste, ws)

\* the uploaded workbooks: one driver row, with or without the route sheet
UploadWorkbooks ==
    {[lenker |-> [present |-> TRUE, rows |-> <<r>>], feiertag |-> AbsentFeiertag,
      dienstplan |-> AbsentDienstplan, dienste |-> dn] :
        r \in {q \in DriverRowSet : q.fix_ms # StrCell(sDI)},
        dn \in {q \in DiensteSheets : ~q.present \/ (q.has_header /\ q.defs = DienstDefs1)}}

\* a row that names a driver or a route the tables do not hold: the
\* statement that wrote it violates a foreign key and raises
Dangling(d) ==
    \/ \E r \in d.availability : \A dr \in d.drivers : dr.driver_id # r.driver_id
    \/ \E f \in d.fixed :
          \/ \A dr \in d.drivers : dr.driver_id # f.driver_id
          \/ \A rt \in d.routes : rt.route_id # f.route_id

\* the request arrives; the file is read and parsed without an await in
\* between; a file openpyxl cannot load fails the request here
Begin(u) ==
    /\ pc = "uploads"
    /\ handlers[u].pc = "idle"
    /\ \E wb \in UploadWorkbooks, readable \in BOOLEAN :
          handlers' = [handlers EXCEPT ![u] =
              IF readable
              THEN [@ EXCEPT !.pc = "clear", !.week_start = 149,
                             !.data = parse_all(wb, 149), !.before = db]
              ELSE [@ EXCEPT !.pc = "failed", !.status = 500, !.before = db]]
    /\ UNCHANGED <<db, notification_vars, cache_vars, pc, week_start, action, workbook,
                   unavailable_list, data, seasonal_routes, response, driver_id_map,
                   route_id_map, unavailable_set, cell_value, coerced, upload_dir, file_size>>

\* what one step of the handler does to the tables and to its own maps
StepOf(h, d) ==
    CASE h.pc = "clear" ->
           [db |-> clear_all_week_data(d), h |-> [h EXCEPT !.pc = "drivers"]]
      [] h.pc = "drivers" ->
           LET r == InsertDrivers(d, h.data.drivers)
           IN  [db |-> r.db, h |-> [h EXCEPT !.pc = "routes", !.driver_id_map = r.map]]
      [] h.pc = "routes" ->
           LET r == InsertRoutes(d, h.data.routes)
           IN  [db |-> r.db, h |-> [h EXCEPT !.pc = "holidays", !.route_id_map = r.map]]
      [] h.pc = "holidays" ->
           [db |-> ProcessHolidays(d, h.data.public_holidays, h.driver_id_map, h.week_start),
            h |-> [h EXCEPT !.pc = "fixed"]]
      [] h.pc = "fixed" ->
           [db |-> ProcessFixedAssignments(d, h.data.fixed_assignments, h.driver_id_map,
                                           h.route_id_map),
            h |-> [h EXCEPT !.pc = "availability"]]
      [] h.pc = "availability" ->
           LET p == ProcessParsedAvailability(d, h.data.driver_availability, h.driver_id_map)
           IN  [db |-> DefaultAvailability(p.db, p.set, h.driver_id_map, h.week_start),
                h |-> [h EXCEPT !.pc = "done", !.status = 200]]

StorePhases == {"clear", "drivers", "routes", "holidays", "fixed", "availability"}

\* the next step of handler u; a statement that violates a foreign key
\* raises and the except branch answers 500
Step(u) ==
    /\ pc = "uploads"
    /\ handlers[u].pc \in StorePhases
    /\ LET r == StepOf(handlers[u], db)
       IN  IF Dangling(r.db)
           THEN /\ handlers' = [handlers EXCEPT ![u].pc = "failed", ![u].status = 500]
                /\ UNCHANGED db
           ELSE /\ handlers' = [handlers EXCEPT ![u] = r.h]
                /\ db' = r.db
    /\ UNCHANGED <<notification_vars, cache_vars, pc, week_start, action, workbook,
                   unavailable_list, data, seasonal_routes, response, driver_id_map,
                   route_id_map, unavailable_set, cell_value, coerced, upload_dir, file_size>>

\* the awaited statement raises (the connection is lost, the statement times
\* out): the except branch removes the file and answers 500
DatabaseError(u) ==
    /\ pc = "uploads"
    /\ handlers[u].pc \in StorePhases
    /\ handlers' = [handlers EXCEPT ![u].pc = "failed", ![u].status = 500]
    /\ UNCHANGED <<db, notification_vars, cache_vars, pc, week_start, action, workbook,
                   unavailable_list, data, seasonal_routes, response, driver_id_map,
                   route_id_map, unavailable_set, cell_value, coerced, upload_dir, file_size>>

InitUploads ==
    /\ pc = "uploads"
    /\ week_start = 0
    /\ action = ""
    /\ workbook = NoWorkbook
    /\ unavailable_list = <<>>
    /\ data = FreshData
    /\ seasonal_routes = NoSeasonalRoutes
    /\ response = NoResponse
    /\ driver_id_map = <<>>
    /\ route_id_map = <<>>
    /\ unavailable_set = {}
    /\ db = StaleDb
    /\ cell_value = NoneCell
    /\ coerced = NotCoerced
    /\ upload_dir = {}
    /\ file_size = 0
    /\ NoNotifications
    /\ NoCache
    /\ handlers = NoHandlers

NextUploads ==
    \/ \E u \in UploadIds : Begin(u)
    \/ \E u \in UploadIds : Step(u)
    \/ \E u \in UploadIds : DatabaseError(u)

SpecUploads == InitUploads /\ [][NextUploads]_vars

-----------------------------------------------------------------------------
(* Reads of a week's availability through AVAILABILITY_CACHE, between writes *)

AVAILABILITY_CACHE_TTL == 5

MaxClock == 5

\* the rows of the week joined with their driver's name
WeekRows(d, week_start_date) ==
    {[id |-> r.id, driver_id |-> r.driver_id, date |-> r.date, available |-> r.available,
      notes |-> r.notes, driver_name |-> dr.name] :
        <<r, dr>> \in {p \in d.availability \X d.drivers :
                         /\ p[1].driver_id = p[2].driver_id
                         /\ p[1].date >= week_start_date
                         /\ p[1].date < week_start_date + 7}}

\* ORDER BY d.name, da.date, for the rows of the one driver of this table
RECURSIVE OrderedByDate(_)
OrderedByDate(rows) ==
    IF rows = {} THEN <<>>
    ELSE LET first == CHOOSE r \in rows : \A q \in rows : r.date <= q.date
         IN  <<first>> \o OrderedByDate(rows \ {first})

\* cached_entry and (time.time() - cached_entry[0]) < AVAILABILITY_CACHE_TTL
Fresh(entry, t) == entry.cached /\ (t - entry.at) < AVAILABILITY_CACHE_TTL

get_availability_for_week ==
    /\ pc = "cached_reads"
    /\ \E week \in CacheWeeks :
          LET cached_entry == AVAILABILITY_CACHE[week]
              count == Cardinality({r \in db.availability :
                                       r.date >= week /\ r.date < week + 7})
              result == IF count = 0 THEN <<>> ELSE OrderedByDate(WeekRows(db, week))
          IN  IF Fresh(cached_entry, now)
              THEN /\ read' = [week |-> week, at |-> now, result |-> cached_entry.result]
                   /\ UNCHANGED AVAILABILITY_CACHE
              ELSE /\ AVAILABILITY_CACHE' =
                         [AVAILABILITY_CACHE EXCEPT
                             ![week] = [cached |-> TRUE, at |-> now, result |-> result]]
                   /\ read' = [week |-> week, at |-> now, result |-> result]
    /\ UNCHANGED <<now, notification_vars, handler_vars>>

CachedWrite ==
    <<AVAILABILITY_CACHE, now, read, notification_vars, pc, week_start, action, workbook,
      unavailable_list, data, seasonal_routes, response, driver_id_map, route_id_map,
      unavailable_set, cell_value, coerced, upload_dir, file_size, handlers>>

CreateAvailabilityWrite ==
    /\ pc = "cached_reads"
    /\ \E available \in BOOLEAN :
          db' = create_availability(db, 1, 149, available, NullNotes)
    /\ UNCHANGED CachedWrite

update_availability_record(d, availability_id, available) ==
    LET existing == {r \in d.availability : r.id = availability_id}
    IN  [d EXCEPT !.availability =
            (@ \ existing) \cup {[r EXCEPT !.available = available] : r \in existing}]

UpdateAvailabilityWrite ==
    /\ pc = "cached_reads"
    /\ \E availability_id \in 1..2, available \in BOOLEAN :
          db' = update_availability_record(db, availability_id, available)
    /\ UNCHANGED CachedWrite

\* a second passes
Tick ==
    /\ pc = "cached_reads"
    /\ now < MaxClock
    /\ now' = now + 1
    /\ UNCHANGED <<AVAILABILITY_CACHE, read, notification_vars, handler_vars>>

InitCachedReads ==
    /\ pc = "cached_reads"
    /\ week_start = 0
    /\ action = ""
    /\ workbook = NoWorkbook
    /\ unavailable_list = <<>>
    /\ data = FreshData
    /\ seasonal_routes = NoSeasonalRoutes
    /\ response = NoResponse
    /\ driver_id_map = <<>>
    /\ route_id_map = <<>>
    /\ unavailable_set = {}
    /\ db = upsert_driver(EmptyDb, <<"A">>).db
    /\ cell_value = NoneCell
    /\ coerced = NotCoerced
    /\ upload_dir = {}
    /\ file_size = 0
    /\ NoNotifications
    /\ NoCache
    /\ handlers = NoHandlers

NextCachedReads ==
    \/ get_availability_for_week
    \/ CreateAvailabilityWrite
    \/ UpdateAvailabilityWrite
    \/ Tick

SpecCachedReads == InitCachedReads /\ [][NextCachedReads]_vars

-----------------------------------------------------------------------------
(* The notification store: create_notification and delete_notification *)

MaxNotifications == 3

NotificationNames == {<<"A">>, <<"A", "|", "B">>}
NotificationDates == {<<"C">>, <<"B", "|", "C">>}
NotificationReasons == {<<>>, <<"x">>}

\* f"{driver_name}|{date}"
dedup_key(driver_name, date) == driver_name \o <<"|">> \o date

\* next((n for n in _NOTIFICATIONS if <cond>), None): index of the first match, 0 for None
RECURSIVE FirstIndex(_, _, _)
FirstIndex(notifications, Test(_), i) ==
    IF i > Len(notifications) THEN 0
    ELSE IF Test(notifications[i]) THEN i
    ELSE FirstIndex(notifications, Test, i + 1)

create_notification ==
    /\ pc = "notifications"
    /\ \E driver_name \in NotificationNames, date \in NotificationDates,
          reason \in NotificationReasons :
          LET payload == [driver_name |-> driver_name, date |-> date, reason |-> reason]
              key == dedup_key(driver_name, date)
              existing == FirstIndex(_NOTIFICATIONS,
                                     LAMBDA n : dedup_key(n.driver_name, n.date) = key, 1)
              notification == [id |-> uuid + 1, driver_name |-> driver_name, date |-> date,
                               reason |-> reason, status |-> "pending"]
          IN  IF key \in DEDUP_KEYS /\ existing # 0
              THEN /\ reply' = [op |-> "create", payload |-> payload, status |-> 200,
                                body |-> _NOTIFICATIONS[existing]]
                   /\ UNCHANGED <<_NOTIFICATIONS, DEDUP_KEYS, uuid>>
              ELSE /\ uuid < MaxNotifications
                   /\ _NOTIFICATIONS' = Append(_NOTIFICATIONS, notification)
                   /\ DEDUP_KEYS' = DEDUP_KEYS \cup {key}
                   /\ uuid' = uuid + 1
                   /\ reply' = [op |-> "create", payload |-> payload, status |-> 200,
                                body |-> notification]
    /\ UNCHANGED <<handler_vars, cache_vars>>

\* a plausible slip: the key of the deleted notification stays in DEDUP_KEYS
DiscardKey_kept(keys, key) == keys

\* DEDUP_KEYS.discard(key)
DiscardKey(keys, key) == keys \ {key}

delete_notification ==
    /\ pc = "notifications"
    /\ \E notification_id \in 1..MaxNotifications :
          LET before == Len(_NOTIFICATIONS)
              target == FirstIndex(_NOTIFICATIONS, LAMBDA n : n.id = notification_id, 1)
              remaining == SelectSeq(_NOTIFICATIONS, LAMBDA n : n.id # notification_id)
          IN  /\ _NOTIFICATIONS' = remaining
              /\ DEDUP_KEYS' =
                    IF target # 0
                    THEN DiscardKey(DEDUP_KEYS,
                                    dedup_key(_NOTIFICATIONS[target].driver_name,
                                              _NOTIFICATIONS[target].date))
                    ELSE DEDUP_KEYS
              /\ reply' = IF Len(remaining) = before
                          THEN [op |-> "delete", id |-> notification_id, status |-> 404]
                          ELSE [op |-> "delete", id |-> notification_id, status |-> 200]
    /\ UNCHANGED <<uuid, handler_vars, cache_vars>>

InitNotifications ==
    /\ pc = "notifications"
    /\ week_start = 0
    /\ action = ""
    /\ workbook = NoWorkbook
    /\ unavailable_list = <<>>
    /\ data = FreshData
    /\ seasonal_routes = NoSeasonalRoutes
    /\ response = NoResponse
    /\ driver_id_map = <<>>
    /\ route_id_map = <<>>
    /\ unavailable_set = {}
    /\ db = EmptyDb
    /\ cell_value = NoneCell
    /\ coerced = NotCoerced
    /\ upload_dir = {}
    /\ file_size = 0
    /\ NoNotifications
    /\ NoCache
    /\ handlers = NoHandlers

NextNotifications ==
    \/ create_notification
    \/ delete_notification

SpecNotifications == InitNotifications /\ [][NextNotifications]_vars

-----------------------------------------------------------------------------
InitAvailability ==
    /\ pc = "db_service"
    /\ week_start = 0
    /\ action = ""
    /\ workbook = NoWorkbook
    /\ unavailable_list = <<>>
    /\ data = FreshData
    /\ seasonal_routes = NoSeasonalRoutes
    /\ response = NoResponse
    /\ driver_id_map = <<>>
    /\ route_id_map = <<>>
    /\ unavailable_set = {}
    /\ db = upsert_driver(upsert_driver(EmptyDb, <<"A">>).db, <<"B">>).db
    /\ cell_value = NoneCell
    /\ coerced = NotCoerced
    /\ upload_dir = {}
    /\ file_size = 0
    /\ NoNotifications
    /\ NoCache
    /\ handlers = NoHandlers

CreateAvailabilityCall ==
    /\ pc = "db_service"
    /\ \E driver_id \in AvailDrivers, date \in AvailDates, available \in BOOLEAN,
          notes \in AvailNotes :
          /\ \A r \in db.availability :
                (r.driver_id = driver_id /\ r.date = date /\ ~notes.null /\ ~r.notes.null)
                    => Len(r.notes.parts) < MaxNoteLen
          /\ db' = create_availability(db, driver_id, date, available, notes)
    /\ UNCHANGED <<upload_dir, file_size, other_services, cell_value, coerced, pc, week_start, action, workbook, unavailable_list, data, seasonal_routes,
                   response, driver_id_map, route_id_map, unavailable_set>>

NextAvailability == CreateAvailabilityCall

SpecAvailability == InitAvailability /\ [][NextAvailability]_vars

-----------------------------------------------------------------------------
(* The four cell coercions applied to one cell value *)

CoercionStrings ==
    { sZero, <<" ", "0", "6", ":", "3", "0", " ">>, <<>>, <<"a", "b", "c">>,
      <<"1", "2", ",", "5">>, <<"5", "0", "%">>, <<" ", "8", "0", " ", "%">>,
      <<"7", ".", "5">>, <<"-", "3">>, <<"i", "n", "f">>, <<"n", "a", "n">>,
      <<"1", ".", "2", ".", "3">>, <<"-", "1", ":", "3", "0">> }

\* the values a cell can hold: nothing, an int or float, a date-time, an
\* elapsed time, a text
CoercionCells ==
    {NoneCell}
    \cup {NumCell(TRUE, v) : v \in {0, 600, 10000}}
    \cup {NumCell(FALSE, v) : v \in {25, 750, 9975}}
    \cup {DateTimeCell(149, 0, 0), DateTimeCell(149, 6, 30)}
    \cup {TimedeltaCell(t) : t \in {0, 23400, 90000}}
    \cup {StrCell(x) : x \in CoercionStrings}

InitCoercion ==
    /\ pc = "coerce"
    /\ week_start = 0
    /\ action = ""
    /\ workbook = NoWorkbook
    /\ unavailable_list = <<>>
    /\ data = FreshData
    /\ seasonal_routes = NoSeasonalRoutes
    /\ response = NoResponse
    /\ driver_id_map = <<>>
    /\ route_id_map = <<>>
    /\ unavailable_set = {}
    /\ db = EmptyDb
    /\ cell_value \in CoercionCells
    /\ coerced = NotCoerced
    /\ upload_dir = {}
    /\ file_size = 0
    /\ NoNotifications
    /\ NoCache
    /\ handlers = NoHandlers

coercion_frame ==
    <<other_services, upload_dir, file_size, cell_value, week_start, action, workbook, unavailable_list, data, seasonal_routes,
      response, driver_id_map, route_id_map, unavailable_set, db>>

ParseTime ==
    /\ pc = "coerce"
    /\ coerced' = [op |-> "_parse_time", result |-> ReturnedStr(_parse_time(cell_value))]
    /\ pc' = "coerced"
    /\ UNCHANGED coercion_frame

ParseTimeToHours ==
    /\ pc = "coerce"
    /\ coerced' = [op |-> "_parse_time_to_hours",
                   result |-> ReturnedStr(_parse_time_to_hours(cell_value))]
    /\ pc' = "coerced"
    /\ UNCHANGED coercion_frame

ParseNumber ==
    /\ pc = "coerce"
    /\ coerced' = [op |-> "_parse_number", result |-> _parse_number(cell_value)]
    /\ pc' = "coerced"
    /\ UNCHANGED coercion_frame

ParsePercentage ==
    /\ pc = "coerce"
    /\ coerced' = [op |-> "_parse_percentage", result |-> _parse_percentage(cell_value)]
    /\ pc' = "coerced"
    /\ UNCHANGED coercion_frame

\* the Soll-Std cell of a driver was coerced by parse_lenker_sheet; now the
\* Ist-Std cell of the planning grid is coerced and subtracted from it
ParseDriverHours ==
    /\ pc = "coerce"
    /\ \E soll \in CoercionCells :
          coerced' = [op |-> "_parse_driver_hours",
                      target |-> _parse_time_to_hours(soll),
                      worked |-> _parse_time_to_hours(cell_value),
                      result |-> ReturnedStr(RemainingHours(_parse_time_to_hours(soll),
                                                            _parse_time_to_hours(cell_value)))]
    /\ pc' = "coerced"
    /\ UNCHANGED coercion_frame

NextCoercion ==
    \/ ParseTime
    \/ ParseTimeToHours
    \/ ParseNumber
    \/ ParsePercentage
    \/ ParseDriverHours

SpecCoercion == InitCoercion /\ [][NextCoercion]_vars

-----------------------------------------------------------------------------
(* Properties *)

\* parse_all has returned
AfterParse ==
    pc \in {"determine", "clear", "drivers", "routes", "holidays", "fixed",
            "availability", "respond", "done"}

\* parse_dienstplan_sheet has returned
AfterDienstplan == pc = "parse_dienste" \/ pc = "parse_fixed" \/ AfterParse

\* the persisted availability rows of the driver of a name on a date
RowsOf(name, d) ==
    {r \in db.availability :
        /\ r.date = d
        /\ \E x \in db.drivers : x.name = name /\ x.driver_id = r.driver_id}

RosterNames == {data.drivers[i].name : i \in 1..Len(data.drivers)}

\* C1: after a completed upload every driver of the roster has exactly one
\* persisted availability record on each of the 7 dates of the week
C1_ExactlyOneRecordPerDriverDate ==
    pc = "done" =>
        \A name \in RosterNames : \A d \in WeekDates(week_start) :
            /\ Cardinality({x \in db.drivers : x.name = name}) = 1
            /\ Cardinality(RowsOf(name, d)) = 1

\* C1 witness: a completed upload with two drivers, a holiday in the week,
\* a 'frei' record and a manual unavailability that was applied
C1_Witness ==
    /\ pc = "done"
    /\ Cardinality(RosterNames) = 2
    /\ HolidayDates(data, week_start) # {}
    /\ data.driver_availability # <<>>
    /\ unavailable_list # <<>>
    /\ \E p \in unavailable_set : p[2] = week_start + 5

\* C2: after a completed upload every availability record on a public
\* holiday inside the week has available = false
C2_HolidayRecordsUnavailable ==
    pc = "done" =>
        \A r \in db.availability :
            r.date \in HolidayDates(data, week_start) => ~r.available

\* C3: no route instance, parsed or persisted by the upload, is dated on the
\* Sunday of the week or on a date of the parsed holiday set
C3_NoRouteOnSundayOrHoliday ==
    LET ok(d) == /\ d # week_start + 6
                 /\ Weekday(d) # 6
                 /\ \A j \in 1..Len(data.public_holidays) : data.public_holidays[j].date # d
    IN  /\ \A i \in 1..Len(data.routes) : ok(data.routes[i].date)
        /\ pc \in {"holidays", "fixed", "availability", "respond", "done"} =>
               \A r \in db.routes : ok(r.route.date)

\* C3 witness: routes were produced in a week with a weekday holiday whose
\* activation list is not empty
C3_Witness ==
    /\ pc = "parse_fixed"
    /\ data.routes # <<>>
    /\ week_start + 2 \in HolidayDates(data, week_start)
    /\ \A k \in SeasonKeys : seasonal_routes[k] # <<>>

\* C4: a route instance dated Monday to Friday has a code that does not end
\* in 'SA' (in any letter case), one dated Saturday has a code that does
C4_SaturdayMarker ==
    \A i \in 1..Len(data.routes) :
        LET r == data.routes[i]
            marked == EndsWith(Upper(r.route_name), <<"S", "A">>)
        IN  /\ Weekday(r.date) \in 0..4 => ~marked
            /\ Weekday(r.date) = 5 => marked

\* C4 witness: a Saturday instance of the lower-case code '4sa' next to
\* weekday instances
C4_Witness ==
    /\ \E i \in 1..Len(data.routes) :
           data.routes[i].route_name = s4sa /\ Weekday(data.routes[i].date) = 5
    /\ \E i \in 1..Len(data.routes) : Weekday(data.routes[i].date) \in 0..4

\* C5: in a week without holidays, marked in session on all 7 days by the
\* planning grid and without manual unavailability, a driver whose fixed duty is 'frei' is unavailable
\* on exactly Monday to Friday, and available on Saturday and Sunday
C5_FreiMondayToFriday ==
    ( /\ pc = "done"
      /\ HolidayDates(data, week_start) = {}
      /\ unavailable_list = <<>>
      /\ \A d \in WeekDates(week_start) :
             d \in DOMAIN data.school_days /\ data.school_days[d] ) =>
        \A i \in 1..Len(data.drivers) :
            Lower(Strip(data.drivers[i].fixed_route_with_school)) = sFrei =>
                \A d \in WeekDates(week_start) : \A r \in RowsOf(data.drivers[i].name, d) :
                    r.available = (Weekday(d) \notin 0..4)

\* C6: no fixed assignment is produced for a Saturday or a Sunday
C6_NoWeekendFixedAssignment ==
    \A i \in 1..Len(data.fixed_assignments) :
        Weekday(data.fixed_assignments[i].date) \in 0..4

SeasonOfMonth(m) == IF m \in {6, 7, 8, 9} THEN "summer" ELSE "winter"

\* C7: the season reported for the week and the season of every route
\* instance are the season of the month of the week's Monday
C7_SeasonOfStartMonth ==
    /\ \A i \in 1..Len(data.routes) :
           data.routes[i].season = SeasonOfMonth(MonthOf(week_start))
    /\ pc = "done" => response.season = SeasonOfMonth(MonthOf(week_start))

\* C8: after parse_all school_days has exactly the 7 dates of the week as keys
C8_SevenSchoolDays ==
    AfterParse => DOMAIN data.school_days = WeekDates(week_start)

\* C9: when the date band holds some but not all dates of the week, every
\* date found in the band keeps the flag read from the grid
C9_FoundDatesKeepGridValue ==
    LET found == DatesFound(workbook.dienstplan.band)
        inweek == WeekDates(week_start) \cap DOMAIN found
    IN  ( /\ AfterDienstplan
          /\ workbook.dienstplan.present
          /\ workbook.dienstplan.has_band
          /\ inweek # {}
          /\ inweek # WeekDates(week_start) ) =>
            \A d \in inweek : d \in DOMAIN data.school_days /\ data.school_days[d] = found[d]

\* C10: when the planning sheet is absent every date of the week has the
\* flag of the static vacation calendar, as the later passes read it
C10_AbsentSheetUsesFallback ==
    (AfterDienstplan /\ ~workbook.dienstplan.present) =>
        \A d \in WeekDates(week_start) : SchoolDayOf(data, d) = ~IsVacation(d, week_start)

\* C11: the produced route list holds at most one route instance per
\* (date, route code), whatever the activation column contains
C11_OneRoutePerDateAndCode ==
    \A i, j \in 1..Len(data.routes) :
        (/\ data.routes[i].date = data.routes[j].date
         /\ data.routes[i].route_name = data.routes[j].route_name) => i = j

\* the text of a code before its first '+'
RECURSIVE UpToPlus(_)
UpToPlus(s) ==
    IF s = <<>> \/ Head(s) = "+" THEN <<>> ELSE <<Head(s)>> \o UpToPlus(Tail(s))

\* the roster entries whose name no other entry carries
UniqueRosterEntries ==
    {n \in 1..Len(data.drivers) :
        \A m \in 1..Len(data.drivers) : data.drivers[m].name = data.drivers[n].name => m = n}

\* the names of the routes that the parsed fixed assignments give a driver on a date
FixedRouteNames(name, d) ==
    {data.fixed_assignments[i].route_name :
        i \in {j \in 1..Len(data.fixed_assignments) :
                  /\ data.fixed_assignments[j].driver_name = name
                  /\ data.fixed_assignments[j].date = d}}

HasRoute(name, d) ==
    \E i \in 1..Len(data.routes) :
        data.routes[i].route_name = name /\ data.routes[i].date = d

\* the fixed-duty code of a roster entry that applies on a date
ApplicableCode(n, d) ==
    IF SchoolDayOf(data, d) THEN data.drivers[n].fixed_route_with_school
    ELSE data.drivers[n].fixed_route_without_school

\* C12: for a '+'-joined fixed-duty code only the first part is resolved: the
\* driver gets at most one fixed assignment on a date, it names the first
\* part with the day's suffix (mS / oS) when that route exists on the date,
\* else the bare first part when that exists, else there is no record
C12_PlusJoinedCodeFirstPartOnly ==
    AfterParse =>
        \A n \in UniqueRosterEntries : \A d \in WeekDates(week_start) :
            LET code == ApplicableCode(n, d)
                first == Strip(UpToPlus(code))
                suffixed == first \o (IF SchoolDayOf(data, d) THEN smS ELSE soS)
                records == {j \in 1..Len(data.fixed_assignments) :
                              /\ data.fixed_assignments[j].driver_name = data.drivers[n].name
                              /\ data.fixed_assignments[j].date = d}
            IN  Contains(code, <<"+">>) =>
                    /\ Cardinality(records) <= 1
                    /\ FixedRouteNames(data.drivers[n].name, d) =
                           IF HasRoute(suffixed, d) THEN {suffixed}
                           ELSE IF HasRoute(first, d) THEN {first}
                           ELSE {}

\* C12 witness: a driver with the code '4 + 5' is assigned '4oS' on a day on
\* which '4oS', '4' and '5' all have a route instance
C12_Witness ==
    /\ AfterParse
    /\ \E n \in UniqueRosterEntries : \E d \in WeekDates(week_start) :
          /\ Contains(ApplicableCode(n, d), <<"+">>)
          /\ FixedRouteNames(data.drivers[n].name, d) = {s4oS}
          /\ HasRoute(s4, d) /\ HasRoute(s5, d)

\* a '+'-joined code resolved to its bare first part
C12_BareFirstPart ==
    /\ AfterParse
    /\ \E n \in UniqueRosterEntries : \E d \in WeekDates(week_start) :
          /\ Contains(ApplicableCode(n, d), <<"+">>)
          /\ FixedRouteNames(data.drivers[n].name, d) = {s4}

\* a '+'-joined code whose first part has no route while its second part has
C12_NoRecordForSecondPart ==
    /\ AfterParse
    /\ \E n \in UniqueRosterEntries : \E d \in WeekDates(week_start) :
          /\ Contains(ApplicableCode(n, d), <<"+">>)
          /\ FixedRouteNames(data.drivers[n].name, d) = {}
          /\ \E part \in {s4, s5} : HasRoute(part, d)

\* C13: every fixed assignment, parsed or persisted, references a (route
\* name, date) for which the same derivation produced a route instance
C13_FixedAssignmentReferencesRoute ==
    /\ \A i \in 1..Len(data.fixed_assignments) :
          HasRoute(data.fixed_assignments[i].route_name, data.fixed_assignments[i].date)
    /\ \A f \in db.fixed :
          \E r \in db.routes : r.route_id = f.route_id /\ r.route.date = f.date

\* C13 witness: a completed upload that persisted a fixed assignment while
\* another code of the roster found no route on a working day and left no record
C13_Witness ==
    /\ pc = "done"
    /\ db.fixed # {}
    /\ \E n \in UniqueRosterEntries : \E d \in WeekDates(week_start) :
          /\ d \notin HolidayDates(data, week_start)
          /\ ApplicableCode(n, d) \notin {None, <<>>, sNoneText}
          /\ Lower(Strip(ApplicableCode(n, d))) # sFrei
          /\ FixedRouteNames(data.drivers[n].name, d) = {}

\* generate_weekly_routes has returned
AfterRoutes == pc = "parse_fixed" \/ AfterParse

\* the catalog of the uploaded route sheet
Catalog == _parse_route_definitions(workbook.dienste.defs)

\* the run time a catalog gives a code for the school status of a date
RunTimeOn(catalog, code, d) ==
    IF SchoolDayOf(data, d) THEN catalog[code].vad_mit_schule
    ELSE catalog[code].vad_ohne_schule

\* the activation list of the season and school status of a date
ActiveOn(d) ==
    seasonal_routes[_get_season_key(_get_season_for_date(d), SchoolStatusOf(data, d))]

SameDriver(x, table) == {y \in table : y.name = x.name}
SameRoute(x, table) ==
    {y \in table : y.route.route_name = x.route.route_name /\ y.route.date = x.route.date}
SameAvailability(x, table) == {y \in table : y.driver_id = x.driver_id /\ y.date = x.date}
SameFixed(x, table) ==
    {y \in table : y.driver_id = x.driver_id /\ y.date = x.date /\ y.route_id = x.route_id}

\* C15: uploads for different weeks are independent: no step of an upload
\* for one week changes a persisted row that is dated in another week
C15_OtherWeeksUnchanged ==
    [][ /\ \A r \in db.routes :
              r.route.date \notin WeekDates(week_start') => r \in db'.routes
        /\ \A r \in db.availability :
              r.date \notin WeekDates(week_start') => r \in db'.availability
        /\ \A r \in db.fixed :
              r.date \notin WeekDates(week_start') => r \in db'.fixed ]_vars

\* C16: with action 'replace' the clearing step empties the tables, with
\* action 'append' every persisted row is kept by every step of the upload
C16_AppendKeepsOldData ==
    [][ /\ (pc = "clear" /\ action = "replace") =>
              (db'.drivers = {} /\ db'.routes = {} /\ db'.availability = {}
               /\ db'.fixed = {})
        /\ action' = "append" =>
              /\ \A x \in db.drivers : SameDriver(x, db'.drivers) # {}
              /\ \A x \in db.routes : SameRoute(x, db'.routes) # {}
              /\ \A x \in db.availability : SameAvailability(x, db'.availability) # {}
              /\ \A x \in db.fixed : SameFixed(x, db'.fixed) # {} ]_vars

\* the sections of the parse result that a step changes
Changed(section) == data'[section] # data[section]

C19_AbsentSheetsGiveEmptySections ==
    AfterParse =>
        /\ DOMAIN data = {"routes", "drivers", "public_holidays", "driver_availability",
                          "fixed_assignments", "school_days"}
        /\ ~workbook.feiertag.present => data.public_holidays = <<>>
        /\ ~workbook.dienste.present => data.routes = <<>>
        /\ ~workbook.lenker.present =>
              /\ data.drivers = <<>>
              /\ data.driver_availability = <<>>
              /\ data.fixed_assignments = <<>>

\* C19 witness: the upload of a workbook without any of the four sheets
\* has completed
C19_Witness ==
    /\ pc = "done"
    /\ ~workbook.lenker.present
    /\ ~workbook.feiertag.present
    /\ ~workbook.dienstplan.present
    /\ ~workbook.dienste.present

\* the driver sheet alone is absent and the other three are filled
C19_OnlyDriverSheetAbsent ==
    /\ pc = "done"
    /\ ~workbook.lenker.present
    /\ data.public_holidays # <<>>
    /\ data.routes # <<>>
    /\ WeekDates(week_start) \subseteq DOMAIN data.school_days

\* what a call of create_availability must have done to the table
AvailabilityPost(driver_id, date, notes) ==
    LET old == {r \in db.availability : r.driver_id = driver_id /\ r.date = date}
        new == {r \in db'.availability : r.driver_id = driver_id /\ r.date = date}
    IN  /\ \A x \in db'.availability : SameAvailability(x, db'.availability) = {x}
        /\ Cardinality(new) = 1
        /\ \A o \in old : \A n \in new :
              /\ n.id = o.id
              /\ n.notes = IF notes.null THEN o.notes
                           ELSE IF o.notes.null THEN notes
                           ELSE [null |-> FALSE,
                                 parts |-> o.notes.parts
                                           \o <<[text |-> "; ", arg |-> <<>>]>>
                                           \o notes.parts]

\* C18: whatever calls of create_availability came before, a call leaves at
\* most one row per (driver, date); on an existing row a non-null note is
\* put behind a non-null old note and the separator '; ', and a null note
\* leaves the old note as it is
C18_OneRowNotesAppended ==
    [][ \A driver_id \in AvailDrivers, date \in AvailDates, available \in BOOLEAN,
           notes \in AvailNotes :
           db' = create_availability(db, driver_id, date, available, notes)
               => AvailabilityPost(driver_id, date, notes) ]_vars

\* C18 witness: two calls have given a row the note 'a; b' and a call with
\* a null note has created the other row
C18_Witness ==
    /\ pc = "db_service"
    /\ \E r \in db.availability :
          r.notes = [null |-> FALSE,
                     parts |-> <<[text |-> "a", arg |-> <<>>], [text |-> "; ", arg |-> <<>>],
                                 [text |-> "b", arg |-> <<>>]>>]
    /\ \E r \in db.availability : r.notes.null
    /\ db.seq.availability = 3

\* a text that float() does not accept
NotANumber(x) == PyFloat(x).kind = "ValueError"

\* C20: each of the four coercions gives, for every kind of cell value, a
\* value of its own type or nothing and never raises; the number and the
\* percentage coercion give nothing for a text that is not a number
C20_CoercionsAreTotal ==
    pc = "coerced" =>
        /\ coerced.result.kind # "raise"
        /\ coerced.op \in {"_parse_time", "_parse_time_to_hours"}
              => coerced.result.kind \in {"none", "str"}
        /\ coerced.op = "_parse_number"
              => /\ coerced.result.kind \in {"none", "float", "inf", "nan"}
                 /\ (cell_value.kind = "str" /\ NotANumber(Replace(cell_value.str, ",", <<".">>)))
                       => coerced.result.kind = "none"
        /\ coerced.op = "_parse_percentage"
              => /\ coerced.result.kind \in {"none", "int"}
                 /\ (cell_value.kind = "str" /\ NotANumber(Replace(cell_value.str, "%", <<>>)))
                       => coerced.result.kind = "none"

\* the texts of the form [sign] digits : [sign] digits, read independently
WellFormed(t) ==
    /\ Cardinality({i \in 1..Len(t) : t[i] = ":"}) = 1
    /\ \A i \in 1..Len(t) : t[i] \in Digits \cup {":", "-"}
    /\ \A i \in 1..Len(t) : t[i] = "-" => (i = 1 \/ t[i - 1] = ":")
    /\ \A i \in 1..Len(t) : t[i] \in {":", "-"} => (i < Len(t) /\ t[i + 1] \in Digits)
    /\ t[1] # ":"

\* the number a run of digits with an optional minus sign stands for
RECURSIVE SignedValue(_)
SignedValue(x) ==
    IF x = <<>> THEN 0
    ELSE IF Head(x) = "-" THEN -SignedValue(Tail(x))
    ELSE DigitVal(Head(x)) * 10 ^ (Len(x) - 1) + SignedValue(Tail(x))

\* hours * 60 + minutes of a well-formed text
MinutesOf(t) ==
    LET at == CHOOSE i \in 1..Len(t) : t[i] = ":"
    IN  SignedValue(SubSeq(t, 1, at - 1)) * 60 + SignedValue(SubSeq(t, at + 1, Len(t)))

\* a number of minutes that is not negative, as HH:MM
AsHHMM(n) ==
    (IF n \div 60 < 10 THEN <<"0">> ELSE <<>>) \o DecStr(n \div 60) \o <<":">>
    \o <<Digit((n % 60) \div 10), Digit(n % 10)>>

\* C21: the remaining hours are never negative: they are max(0, target
\* minutes - worked minutes) as HH:MM when both operands are well formed,
\* '00:00' when one of them cannot be read, and undefined when the target
\* or the worked hours are missing
C21_RemainingHoursClamped ==
    (pc = "coerced" /\ coerced.op = "_parse_driver_hours") =>
        IF coerced.target = None \/ coerced.worked = None
        THEN coerced.result.kind = "none"
        ELSE /\ coerced.result.kind = "str"
             /\ "-" \notin {coerced.result.str[i] : i \in 1..Len(coerced.result.str)}
             /\ coerced.result.str =
                   IF WellFormed(coerced.target) /\ WellFormed(coerced.worked)
                   THEN (IF MinutesOf(coerced.target) - MinutesOf(coerced.worked) < 0
                         THEN sZero
                         ELSE AsHHMM(MinutesOf(coerced.target) - MinutesOf(coerced.worked)))
                   ELSE sZero

\* C21 witness: more hours worked than the target, and the remainder is 00:00
C21_Witness ==
    /\ pc = "coerced"
    /\ coerced.op = "_parse_driver_hours"
    /\ coerced.target # None /\ coerced.worked # None
    /\ WellFormed(coerced.target) /\ WellFormed(coerced.worked)
    /\ MinutesOf(coerced.target) < MinutesOf(coerced.worked)
    /\ MinutesOf(coerced.target) > 0
    /\ coerced.result.str = sZero

\* a remainder that is not zero
C21_PositiveRemainder ==
    /\ pc = "coerced"
    /\ coerced.op = "_parse_driver_hours"
    /\ coerced.result.kind = "str"
    /\ coerced.result.str # sZero

\* C22: the text '00:00' becomes absent in the time-of-day coercion and the
\* zero duration '00:00' in the duration coercion, never the other way round
C22_ZeroTextTwoOutcomes ==
    (pc = "coerced" /\ cell_value = StrCell(sZero)) =>
        /\ coerced.op = "_parse_time" => coerced.result = ReturnedNone
        /\ coerced.op = "_parse_time_to_hours" => coerced.result = Returned("str", sZero, 0)

\* C22 witness: the time-of-day coercion has been applied to '00:00'
C22_Witness ==
    /\ pc = "coerced"
    /\ cell_value = StrCell(sZero)
    /\ coerced.op = "_parse_time"

\* the duration coercion has been applied to '00:00'
C22_DurationWitness ==
    /\ pc = "coerced"
    /\ cell_value = StrCell(sZero)
    /\ coerced.op = "_parse_time_to_hours"

\* a code with the before or the after suffix
Suffixed(r) == EndsWith(r, <<"-", "v", "o", "r">>) \/ EndsWith(r, <<"-", "n", "a", "c", "h">>)

\* the code a suffixed code is a variant of
Unsuffixed(r) ==
    IF EndsWith(r, <<"-", "v", "o", "r">>) THEN SubSeq(r, 1, Len(r) - 4)
    ELSE SubSeq(r, 1, Len(r) - 5)

\* C24: per activation column the folding returns every code without suffix
\* in input order, then once the base code of each -vor / -nach variant
\* whose base code is not listed in the column, and nothing else; no
\* suffixed variant of the input remains
C24_BeforeAfterFolding ==
    (AfterRoutes /\ workbook.dienste.present /\ workbook.dienste.has_header) =>
        \A k \in SeasonKeys :
            LET input == ColumnRoutes(workbook.dienste.act[k], 1)
                out == seasonal_routes[k]
                plain == SelectSeq(input, LAMBDA r : ~Suffixed(r))
                listed == {plain[i] : i \in 1..Len(plain)}
                folded == {Unsuffixed(input[i]) : i \in {j \in 1..Len(input) : Suffixed(input[j])}}
                         \ listed
                tail == SubSeq(out, Len(plain) + 1, Len(out))
            IN  /\ Len(out) >= Len(plain)
                /\ SubSeq(out, 1, Len(plain)) = plain
                /\ {tail[i] : i \in 1..Len(tail)} = folded
                /\ Len(tail) = Cardinality(folded)
                /\ \A i \in 1..Len(out) :
                      Suffixed(out[i]) => \A j \in 1..Len(input) : input[j] # out[i]

\* C24 witness: a column with both variants of a code that is not listed and
\* a variant of a code that is listed has been folded
C24_Witness ==
    /\ AfterRoutes
    /\ \E k \in SeasonKeys :
          LET input == ColumnRoutes(workbook.dienste.act[k], 1)
              codes == {input[i] : i \in 1..Len(input)}
          IN  /\ {<<"4", "-", "v", "o", "r">>, <<"4", "-", "n", "a", "c", "h">>,
                   <<"5", "-", "v", "o", "r">>, s5} \subseteq codes
              /\ s4 \notin codes
              /\ seasonal_routes[k] = <<s5, s4>>

\* C25: a driver whose applicable fixed-duty code is DI or MB has, on every
\* working day that is not a holiday and on which the code is in the
\* activation list, a special-duty route instance and a fixed assignment
\* that references it, whether or not the code has a row in the catalog
C25_SpecialDutyAssigned ==
    AfterParse =>
        \A n \in UniqueRosterEntries : \A d \in WeekDates(week_start) :
            LET code == Strip(ApplicableCode(n, d))
            IN  (/\ code \in {sDI, sMB}
                 /\ Weekday(d) <= 4
                 /\ d \notin HolidayDates(data, week_start)
                 /\ \E k \in 1..Len(ActiveOn(d)) : ActiveOn(d)[k] = code) =>
                    /\ \E i \in 1..Len(data.routes) :
                          /\ data.routes[i].route_name = code
                          /\ data.routes[i].date = d
                          /\ data.routes[i].type = "special_duty"
                    /\ FixedRouteNames(data.drivers[n].name, d) = {code}

\* C23: a week_start that is not a Monday is rejected with status 400 and
\* nothing is parsed, cleared or written; the suggested previous_monday and
\* next_monday are Mondays, the latest before and the earliest after the
\* date, seven days apart; only a Monday gets past the validation
C23_NonMondayRejected ==
    /\ pc \notin {"idle", "rejected"} => Weekday(week_start) = 0
    /\ (pc = "rejected" /\ Weekday(week_start) # 0) =>
          /\ response.status = 400
          /\ db = StaleDb /\ data = FreshData /\ workbook = NoWorkbook
          /\ upload_dir = {}
          /\ Weekday(response.previous_monday) = 0
          /\ Weekday(response.next_monday) = 0
          /\ response.previous_monday < week_start
          /\ response.next_monday > week_start
          /\ \A d \in (response.previous_monday + 1)..(response.next_monday - 1) :
                Weekday(d) # 0
          /\ response.next_monday - response.previous_monday = 7

\* C23 witness: a Sunday was rejected with the Mondays around it
C23_Witness ==
    /\ pc = "rejected"
    /\ Weekday(week_start) = 6
    /\ response.previous_monday = 149
    /\ response.next_monday = 156

\* C29: a file larger than MAX_FILE_SIZE is rejected with status 400 and the
\* detail 'File too large'; nothing is parsed, cleared or written and no
\* file is left in the upload directory
C29_TooLargeRejected ==
    (pc = "rejected" /\ file_size > MAX_FILE_SIZE) =>
        /\ response.status = 400
        /\ response.detail = "File too large"
        /\ db = StaleDb /\ data = FreshData /\ workbook = NoWorkbook
        /\ upload_dir = {}

\* the (driver_name, date) pairs of the stored notifications are distinct and
\* DEDUP_KEYS holds exactly their keys
NotificationsConsistent ==
    /\ \A i, j \in 1..Len(_NOTIFICATIONS) :
          (/\ _NOTIFICATIONS[i].driver_name = _NOTIFICATIONS[j].driver_name
           /\ _NOTIFICATIONS[i].date = _NOTIFICATIONS[j].date) => i = j
    /\ DEDUP_KEYS = {_NOTIFICATIONS[i].driver_name \o <<"|">> \o _NOTIFICATIONS[i].date :
                        i \in 1..Len(_NOTIFICATIONS)}

StoredIds == {_NOTIFICATIONS[i].id : i \in 1..Len(_NOTIFICATIONS)}

\* what each notification call does to the store
NotificationStep ==
    /\ (reply'.op = "create" /\
           reply'.payload.driver_name \o <<"|">> \o reply'.payload.date \in DEDUP_KEYS) =>
          /\ _NOTIFICATIONS' = _NOTIFICATIONS /\ DEDUP_KEYS' = DEDUP_KEYS
          /\ \E i \in 1..Len(_NOTIFICATIONS) :
                /\ reply'.body = _NOTIFICATIONS[i]
                /\ _NOTIFICATIONS[i].driver_name \o <<"|">> \o _NOTIFICATIONS[i].date =
                      reply'.payload.driver_name \o <<"|">> \o reply'.payload.date
    /\ (reply'.op = "delete" /\ reply'.id \in StoredIds) =>
          /\ reply'.status = 200
          /\ StoredIds' = StoredIds \ {reply'.id}
          /\ \E i \in 1..Len(_NOTIFICATIONS) :
                /\ _NOTIFICATIONS[i].id = reply'.id
                /\ DEDUP_KEYS' = DEDUP_KEYS \ {_NOTIFICATIONS[i].driver_name \o <<"|">>
                                                  \o _NOTIFICATIONS[i].date}
    /\ (reply'.op = "delete" /\ reply'.id \notin StoredIds) =>
          /\ reply'.status = 404
          /\ _NOTIFICATIONS' = _NOTIFICATIONS /\ DEDUP_KEYS' = DEDUP_KEYS

\* C30: after any sequence of create_notification and delete_notification
\* there is at most one stored notification per (driver_name, date) and
\* DEDUP_KEYS is exactly the key set of the stored notifications; a create
\* for a stored key returns the existing notification and adds nothing, a
\* delete of a stored id removes it and frees its key, a delete of an unknown
\* id answers 404 and changes nothing
C30_NotificationsDeduplicated ==
    /\ []NotificationsConsistent
    /\ [][NotificationStep]_vars

\* C30 witness: after a delete freed a key, a create for a stored key got the
\* stored notification back instead of a new one
C30_Witness ==
    /\ reply.op = "create"
    /\ reply.body.reason # reply.payload.reason
    /\ uuid = 2
    /\ Len(_NOTIFICATIONS) = 1
    /\ _NOTIFICATIONS[1].id = 2

\* C28: a read follows the writes: what get_availability_for_week returns
\* is the week's availability as the tables hold it at the time of the call,
\* never a result computed before the latest write
C28_ReadFollowsWrites ==
    [][read' # read =>
         read'.result = (IF \E r \in db.availability :
                                r.date >= read'.week /\ r.date < read'.week + 7
                         THEN OrderedByDate(WeekRows(db, read'.week))
                         ELSE <<>>)]_vars

\* the tables after the upload of handler h ran from clear to the end with no
\* other request in between
RECURSIVE Alone(_, _)
Alone(h, d) ==
    IF h.pc \notin StorePhases THEN d
    ELSE LET r == StepOf(h, d) IN Alone(r.h, r.db)

\* C26: two uploads that run at the same time and both complete leave the
\* tables as one of them alone would: no mix of rows of both and no row that
\* names an id issued to the other
C26_ConcurrentUploadsSerialized ==
    (\A u \in UploadIds : handlers[u].pc = "done") =>
        \E u \in UploadIds : db = Alone([handlers[u] EXCEPT !.pc = "clear"], db)

\* C27: an upload that fails, at the parse or at any later step, leaves the
\* tables as they were when it began
C27_FailedUploadLeavesData ==
    \A u \in UploadIds :
        (/\ handlers[u].pc = "failed"
         /\ \A v \in UploadIds \ {u} : handlers[v].pc = "idle") =>
            db = handlers[u].before

====
